---- MODULE Spec2Model ----
(***************************************************************************)
(* Model of the move-source fallback chain of openenv-chess:               *)
(* HybridAgentMoveSelector.get_move and the collaborators it drives        *)
(* (OpeningBookClient, TablebaseClient, StockfishEvaluator,                *)
(* ChessAgentManager), together with the two callers that reach it         *)
(* (GameOrchestrator.run_game and the /agent-move endpoint).               *)
(*                                                                         *)
(* The chess rules engine is outside the model: a position is an abstract  *)
(* FEN with a fixed list of legal moves, a piece count and a side to move. *)
(***************************************************************************)
EXTENDS Integers, Sequences, FiniteSets, TLC

VARIABLES
    caller,           \* "run_game" | "agent_move": who drives get_move
    ply,              \* plies executed in the game so far
    histLen,          \* len(game_history) handed to get_move
    pos,              \* current position (board.fen())
    pc,               \* position of the current get_move call
    bookEnabled,      \* HybridAgentMoveSelector.opening_book is not None
    tbEnabled,        \* HybridAgentMoveSelector.tablebase is not None
    engineUp,         \* StockfishEvaluator.engine is not None
    agentReg,         \* agent_id in ChessAgentManager.agents
    personality,      \* AgentConfig.personality of the agent
    bookCache,        \* OpeningBookClient._cache, in insertion order
    tbCache,          \* TablebaseClient._session_cache
    positionCache,    \* StockfishEvaluator._position_cache
    candidates,       \* candidates of the current ply (get_top_moves result)
    attempt,          \* loop index of the retry loop in progress
    move,             \* move returned by get_move (NoMove while running)
    source,           \* source tag returned by get_move
    error,            \* error propagated by get_move
    tbResult,         \* tablebase_result seen by get_move in this ply
    trace,            \* collaborator calls made during the current ply
    calls,            \* get_move calls started so far
    args,             \* arguments of the function call under study
    ret,              \* what that call returned (NotCalled before the call)
    enable_evaluation,            \* GameOrchestrator.enable_evaluation
    enable_commentary,            \* GameOrchestrator.enable_commentary
    evaluation_history,           \* GameOrchestrator.evaluation_history
    last_commentary_move_number,  \* GameOrchestrator.last_commentary_move_number
    total_moves,      \* plies executed in each game an orchestrator serves
    step,             \* the last run_game_step call and what it returned
    evaluated,        \* every sample the orchestrator appended, in order
    games,            \* StateManager.games: game_id -> stored board state
    requests,         \* the /agent-move and /step requests in flight
    game,             \* ChessOpenEnv.game (NoGame before reset)
    chess_board,      \* ChessOpenEnv.chess.board
    move_count,       \* ChessOpenEnv._move_count
    successful_steps, \* step calls that returned since the last reset
    run,              \* the run_game call in progress and its summary
    max_games         \* StateManager.max_games

\* state of get_move and its collaborators
selectorVars ==
    <<caller, ply, histLen, pos, pc, bookEnabled, tbEnabled, engineUp,
      agentReg, personality, bookCache, tbCache, positionCache,
      candidates, attempt, move, source, error, tbResult, trace, calls>>

\* one call of a function without side effects
callVars == <<args, ret>>

\* state of one GameOrchestrator and of the games it is handed
orchestratorVars ==
    <<enable_evaluation, enable_commentary, evaluation_history,
      last_commentary_move_number, total_moves, step, evaluated>>

\* state of the HTTP layer
requestVars == <<games, requests>>

\* state of one ChessOpenEnv
envVars == <<game, chess_board, move_count, successful_steps>>

\* state of one GameOrchestrator.run_game call
runVars == <<run>>

\* configuration of the StateManager (its games are in requestVars)
storeVars == <<max_games>>

vars == <<selectorVars, callVars, orchestratorVars, requestVars, envVars, runVars, storeVars>>

\* the parts of the state a component does not touch keep these values
NotCalled == [done |-> FALSE, value |-> "none"]

\* the call has returned v
Returning(v) == [done |-> TRUE, value |-> v]

SelectorAtRest ==
    /\ caller = "run_game" /\ ply = 0 /\ histLen = 0 /\ pos = "middlegame"
    /\ pc = "idle" /\ bookEnabled = FALSE /\ tbEnabled = FALSE
    /\ engineUp = TRUE /\ agentReg = TRUE /\ personality = "balanced"
    /\ bookCache = <<>> /\ tbCache = <<>> /\ positionCache = <<>>
    /\ candidates = <<>> /\ attempt = 0 /\ move = "none" /\ source = "none"
    /\ error = "none" /\ tbResult = <<>> /\ trace = <<>> /\ calls = 0

CallAtRest == args = <<>> /\ ret = NotCalled

OrchestratorAtRest ==
    /\ enable_evaluation = TRUE /\ enable_commentary = TRUE
    /\ evaluation_history = <<>> /\ last_commentary_move_number = 0
    /\ total_moves = <<>> /\ step = <<>> /\ evaluated = <<>>

RequestsAtRest == games = <<>> /\ requests = <<>>

EnvAtRest == game = <<>> /\ chess_board = <<>> /\ move_count = 0 /\ successful_steps = 0

RunAtRest == run = <<>>

StoreAtRest == max_games = 100

(***************************************************************************)
(* Bounds of the model.                                                    *)
(***************************************************************************)
MaxPly == 17          \* latest ply of a game at which a move is requested
MaxCalls == 2         \* requests for the move of one ply (first call, retries)
NumCandidates == 2    \* num_candidates handed to get_top_moves
MaxTokens == 2        \* words of an agent response
BookCacheSize == 1    \* cache_size of the opening book client
MaxBookMoves == 3     \* entries of an opening_moves list handed to select_opening_move
MaxSilence == 9       \* largest moves_since_last_commentary handed to the strategist
MaxSteps == 12        \* plies played in the game an orchestrator is mainly handed
MaxOtherPlies == 2    \* plies played in the second game it is handed

(***************************************************************************)
(* Program constants.                                                      *)
(***************************************************************************)
BookMaxMove == 15         \* should_use_opening_book: move_number <= 15
TablebaseMaxPieces == 7   \* should_query_tablebase: piece_count <= 7
max_retries == 3          \* AgentConfig.max_retries
HistoryWindow == 10       \* run_game_step: len(self.evaluation_history) > 10

NoMove == "none"
Games == {"g1"}
game_id == "g1"

(***************************************************************************)
(* Positions.  Each abstract FEN has a list of legal moves in the order    *)
(* board.legal_moves yields them, a piece count and a side to move.        *)
(***************************************************************************)
Positions == {"middlegame", "endgame"}

LegalMoves(p) ==
    IF p = "middlegame" THEN <<"e2e4", "d2d4">> ELSE <<"d2d4", "g1f3">>

PieceCount(p) == IF p = "middlegame" THEN 30 ELSE 5

WhiteToMove(p) == p = "middlegame"

Range(s) == {s[i] : i \in 1..Len(s)}

\* chess.Move.from_uci accepts the string (it raises ValueError otherwise)
ValidUci(m) == m \in {"e2e4", "d2d4", "g1f3"}

\* move in board.legal_moves
IsLegal(m, p) == m \in Range(LegalMoves(p))

(***************************************************************************)
(* Opening book: OpeningMove statistics and select_opening_move.           *)
(* A book entry is [uci, white, draws, black, complete]; an entry that is  *)
(* not complete lacks one of the keys query_opening_book reads.            *)
(***************************************************************************)
BookEntry(u, w, d, b) ==
    [uci |-> u, white |-> w, draws |-> d, black |-> b, complete |-> TRUE]

total_games(m) == m.white + m.draws + m.black

\* The personality score of select_opening_move as a fraction num/den:
\*   aggressive: total_games * 0.5 + draw_rate * 1000
\*   defensive:  total_games * 0.5 + (1 - draw_rate) * 1000
\* with draw_rate = 0.0 when total_games = 0.
ScoreNum(m, pers) ==
    LET t == total_games(m) IN
    IF t = 0 THEN (IF pers = "aggressive" THEN 0 ELSE 1000)
    ELSE IF pers = "aggressive" THEN t * t + 2000 * m.draws
    ELSE t * t + 2000 * (t - m.draws)

ScoreDen(m) == IF total_games(m) = 0 THEN 1 ELSE 2 * total_games(m)

\* KeyGreater with the personality ignored (every agent sorted by popularity)
KeyGreater_most_games(a, b, pers) == total_games(a) > total_games(b)

\* sort key of entry a is strictly greater than that of entry b
KeyGreater(a, b, pers) ==
    IF pers \in {"aggressive", "defensive"}
    THEN ScoreNum(a, pers) * ScoreDen(b) > ScoreNum(b, pers) * ScoreDen(a)
    ELSE total_games(a) > total_games(b)

\* candidates[0] after the stable descending sort: the earliest entry that
\* no other entry beats
select_opening_move(opening_moves, pers) ==
    IF opening_moves = <<>> THEN NoMove
    ELSE LET best == CHOOSE i \in 1..Len(opening_moves) :
                 /\ \A j \in 1..Len(opening_moves) :
                        ~KeyGreater(opening_moves[j], opening_moves[i], pers)
                 /\ \A j \in 1..(i - 1) :
                        KeyGreater(opening_moves[i], opening_moves[j], pers)
         IN opening_moves[best].uci

\* the OpeningMove list query_opening_book builds from response_data["moves"]
ParseBookMoves(moves_data) == SelectSeq(moves_data, LAMBDA e : e.complete)

\* Outcome of requests.get in query_opening_book: a JSON object with a
\* "moves" list, a body that is not a JSON object, or a timeout / request
\* error.  Only the first two are response_data values that get cached.
BookJson(ms) == [status |-> "json", moves |-> ms]
BookMalformed == [status |-> "malformed", moves |-> <<>>]
BookTimeout == [status |-> "timeout", moves |-> <<>>]

BookResponses ==
    { BookJson(<<>>),
      BookJson(<<[BookEntry("d2d4", 900, 0, 0) EXCEPT !.complete = FALSE],
                 BookEntry("e2e4", 40, 50, 10),
                 BookEntry("g1f3", 30, 10, 10)>>),
      BookJson(<<BookEntry("zz", 5, 0, 0)>>),
      BookMalformed }

BookApiOutcomes == BookResponses \cup {BookTimeout}

\* should_use_opening_book
should_use_opening_book(move_number) == move_number <= BookMaxMove

\* OpeningBookClient._cache as a sequence of [fen, data] in insertion order
BookCached(cache, fen) == \E i \in 1..Len(cache) : cache[i].fen = fen

BookCacheGet(cache, fen) ==
    cache[CHOOSE i \in 1..Len(cache) : cache[i].fen = fen].data

\* self._cache[fen] = response_data, after the FIFO eviction
BookCachePut(cache, fen, data) ==
    LET kept == IF Len(cache) >= BookCacheSize /\ cache # <<>>
                THEN Tail(cache) ELSE cache
    IN Append(kept, [fen |-> fen, data |-> data])

(***************************************************************************)
(* Tablebase client.                                                       *)
(***************************************************************************)
should_query_tablebase(fen) == PieceCount(fen) <= TablebaseMaxPieces

Categories == {"win", "maybe-win", "draw", "maybe-loss", "loss", "unknown"}

\* category_to_wdl.get(category, 0)
category_to_wdl(category) ==
    CASE category = "win" -> 2
      [] category = "maybe-win" -> 1
      [] category = "draw" -> 0
      [] category = "maybe-loss" -> 0 - 1
      [] category = "loss" -> 0 - 2
      [] OTHER -> 0

is_winning(wdl) == wdl >= 1
is_drawing(wdl) == wdl = 0
is_losing(wdl) == wdl <= 0 - 1

\* best_move.get("wdl") of the first move of a 200 response: a number, or
\* WdlAbsent when the move carries no "wdl" key
WdlAbsent == 99
MoveWdls == {0 - 2, 0, 2, WdlAbsent}

\* Outcome of the HTTP request of query_position: status 200 with a first
\* move, status 200 without moves, another status, or a timeout/exception.
TbHit(u, w, c) == [status |-> "moves", uci |-> u, wdl |-> w, category |-> c]
TbNothing(st) == [status |-> st, uci |-> NoMove, wdl |-> 0, category |-> "unknown"]

TbApiOutcomes ==
    {TbHit("d2d4", w, c) : w \in MoveWdls, c \in Categories}
    \cup {TbHit(u, WdlAbsent, c) : u \in {"e2e4", "zz"}, c \in {"win", "loss"}}
    \cup {TbNothing(st) : st \in {"empty", "http_error", "timeout"}}

\* the result dict query_position builds (and caches) from a 200 response
TbResultOf(resp) ==
    [uci |-> resp.uci,
     wdl |-> IF resp.wdl = WdlAbsent THEN category_to_wdl(resp.category) ELSE resp.wdl]

NoTbResult == [uci |-> NoMove, wdl |-> 0]

(***************************************************************************)
(* Evaluation source: StockfishEvaluator.get_top_moves.                    *)
(* A candidate is [move, cp]; cp is the score from white's point of view   *)
(* (score.white()).  The engine reports its multipv lines best first for   *)
(* the side to move, one line per root move, and python-chess only parses  *)
(* principal variations that are legal on the analysed board.              *)
(***************************************************************************)
\* the engine's score of move m in position p, from white's point of view
EngineCp(p, m) ==
    IF p = "middlegame" THEN (IF m = "e2e4" THEN 40 ELSE 0 - 30)
    ELSE (IF m = "d2d4" THEN 40 ELSE 0 - 30)

Candidate(m, c) == [move |-> m, cp |-> c]

BestFirst(cands, p) ==
    \A i \in 1..Len(cands) : \A j \in (i + 1)..Len(cands) :
        /\ cands[i].move # cands[j].move
        /\ IF WhiteToMove(p) THEN cands[i].cp >= cands[j].cp
                             ELSE cands[i].cp <= cands[j].cp

\* every top_moves list engine.analyse(board, multipv=num_moves) can yield;
\* the empty list is also what get_top_moves returns when analyse raises
CandidateLists(p) ==
    {<<>>} \cup
    UNION { { cands \in [1..n -> {Candidate(m, EngineCp(p, m)) :
                                      m \in Range(LegalMoves(p))}] :
                BestFirst(cands, p) } : n \in 1..NumCandidates }

\* candidate_moves with the bug of validating against every move string
\* instead of the candidates
candidate_moves_all(cands) == <<"e2e4", "d2d4", "g1f3">>

\* candidate_moves = [move.uci() for move, _, _ in candidates]
candidate_moves(cands) == [i \in 1..Len(cands) |-> cands[i].move]

\* top_candidate with the bug of taking the last candidate
top_candidate_last(cands) == cands[Len(cands)].move

\* candidates[0][0].uci()
top_candidate(cands) == cands[1].move

\* _position_cache.get(game_id).get(fen)
get_cached_position(cache, g, fen) == cache[g][fen]

(***************************************************************************)
(* Agent response and ChessAgentManager._extract_move.                     *)
(* A response is a sequence of words.  _extract_move lower-cases the text  *)
(* and strips <code> tags before it searches for moves.                    *)
(***************************************************************************)
Words == {"e2e4", "<code>d2d4</code>", "G1F3", "knight"}

\* str(result).strip().lower() and the re.sub clean-up, word by word
CleanWord(w) ==
    CASE w = "G1F3" -> "g1f3"
      [] w = "<code>d2d4</code>" -> "d2d4"
      [] OTHER -> w

\* the word matches [a-h][1-8][a-h][1-8][qrbn]?
IsCoordinate(w) == w \in {"e2e4", "d2d4", "g1f3"}

Texts == UNION {[1..n -> Words] : n \in 0..MaxTokens}

\* extract_move with the search in text order instead of list order
extract_move_first_in_text(text, legal_moves) ==
    LET cleaned == [i \in 1..Len(text) |-> CleanWord(text[i])]
        found == {j \in 1..Len(cleaned) : cleaned[j] \in Range(legal_moves)}
    IN IF found # {}
       THEN cleaned[CHOOSE j \in found : \A k \in found : j <= k]
       ELSE NoMove

extract_move(text, legal_moves) ==
    LET cleaned == [i \in 1..Len(text) |-> CleanWord(text[i])]
        exact == {i \in 1..Len(legal_moves) : legal_moves[i] \in Range(cleaned)}
        coord == {j \in 1..Len(cleaned) :
                     IsCoordinate(cleaned[j]) /\ cleaned[j] \in Range(legal_moves)}
    IN IF exact # {}
       THEN legal_moves[CHOOSE i \in exact : \A k \in exact : i <= k]
       ELSE IF coord # {}
       THEN cleaned[CHOOSE j \in coord : \A k \in coord : j <= k]
       ELSE NoMove

\* agent.run(prompt): a response text, or an exception
AgentOutcomes == {[raised |-> r, text |-> t] : r \in {FALSE}, t \in Texts}
                 \cup {[raised |-> TRUE, text |-> <<>>]}

\* loop_continues with an off-by-one bound (one pass too many)
loop_continues_off_by_one(att) == att + 1 <= max_retries

\* for attempt in range(config.max_retries): the loop has another pass after
\* the pass with index att
loop_continues(att) == att + 1 < max_retries

\* the move one attempt of the retry loop of _get_hybrid_agent_move accepts
\* (NoMove: the attempt is logged and the loop goes on)
hybrid_attempt(out, cands) ==
    IF out.raised THEN NoMove
    ELSE LET selected_move == extract_move(out.text, candidate_moves(cands))
         IN IF selected_move # NoMove
               /\ selected_move \in Range(candidate_moves(cands))
            THEN selected_move ELSE NoMove

\* fallback_attempt taking the first word of the answer for the move
fallback_attempt_unvalidated(out, legal_moves) ==
    IF out.raised \/ out.text = <<>> THEN NoMove ELSE CleanWord(out.text[1])

\* the move one attempt of the retry loop of get_agent_move accepts
fallback_attempt(out, legal_moves) ==
    IF out.raised THEN NoMove ELSE extract_move(out.text, legal_moves)

(***************************************************************************)
(* HybridAgentMoveSelector.get_move, one action per tier step.             *)
(***************************************************************************)
Personalities == {"aggressive", "defensive", "balanced"}

EmptyTbCache == [p \in Positions |-> NoTbResult]
EmptyPositionCache == [g \in Games |-> [p \in Positions |-> <<>>]]

\* Return with the bug of not leaving get_move after a book move
Return_book_goes_on(m, tag) ==
    /\ pc' = (IF tag = "opening_book" THEN "tablebase" ELSE "done")
    /\ move' = m
    /\ source' = tag

\* return move_uci, tag
Return(m, tag) ==
    /\ pc' = "done"
    /\ move' = m
    /\ source' = tag

\* book_tier_move with the bug of not validating the selected move
book_tier_move_unchecked(data, pers, p) ==
    IF data.status # "json" THEN NoMove
    ELSE select_opening_move(ParseBookMoves(data.moves), pers)

\* the move the book tier accepts for response_data (NoMove: fall through)
book_tier_move(data, pers, p) ==
    IF data.status # "json" THEN NoMove
    ELSE LET move_uci == select_opening_move(ParseBookMoves(data.moves), pers)
         IN IF move_uci # NoMove /\ ValidUci(move_uci) /\ IsLegal(move_uci, p)
            THEN move_uci ELSE NoMove

\* tablebase_accepts with the bug of not checking legality
tablebase_accepts_illegal(result, p) ==
    /\ result # NoTbResult
    /\ ValidUci(result.uci)
    /\ (is_winning(result.wdl) \/ is_drawing(result.wdl))

\* tablebase_accepts with the bug of not checking the win/draw/loss class
tablebase_accepts_losing(result, p) ==
    /\ result # NoTbResult
    /\ ValidUci(result.uci)
    /\ IsLegal(result.uci, p)

\* the tablebase tier accepts tablebase_result
tablebase_accepts(result, p) ==
    /\ result # NoTbResult
    /\ ValidUci(result.uci)
    /\ IsLegal(result.uci, p)
    /\ (is_winning(result.wdl) \/ is_drawing(result.wdl))

\* The caller asks for the move of the current ply, for the first time or
\* again after get_move raised.  run_game passes its move_history; the
\* /agent-move endpoint builds a new orchestrator (and so new book and
\* tablebase clients) per request and passes move_history=[].  The
\* orchestrator has a hybrid selector only if Stockfish was available when
\* it was built.
Call ==
    /\ pc \in {"idle", "raised"}
    /\ calls < MaxCalls
    /\ caller = "agent_move" => engineUp
    /\ calls' = calls + 1
    /\ histLen' = IF caller = "run_game" THEN ply ELSE 0
    /\ bookCache' = IF caller = "agent_move" THEN <<>> ELSE bookCache
    /\ tbCache' = IF caller = "agent_move" THEN EmptyTbCache ELSE tbCache
    /\ agentReg' \in BOOLEAN
    /\ personality' \in Personalities
    /\ pc' = "book"
    /\ move' = NoMove
    /\ source' = "none"
    /\ error' = "none"
    /\ candidates' = <<>>
    /\ attempt' = 0
    /\ tbResult' = NoTbResult
    /\ trace' = <<>>
    /\ UNCHANGED <<caller, ply, pos, bookEnabled, tbEnabled, engineUp, positionCache>>
    /\ UNCHANGED <<callVars, orchestratorVars, requestVars, envVars, runVars, storeVars>>

\* Tier 1: opening book.
BookTier ==
    /\ pc = "book"
    /\ IF bookEnabled /\ should_use_opening_book(histLen + 1)
       THEN /\ trace' = Append(trace, "book")
            /\ \E data \in BookApiOutcomes :
                 /\ IF BookCached(bookCache, pos)
                    THEN /\ data = BookCacheGet(bookCache, pos)
                         /\ bookCache' = bookCache
                    ELSE bookCache' = IF data.status = "timeout" THEN bookCache
                                      ELSE BookCachePut(bookCache, pos, data)
                 /\ IF book_tier_move(data, personality, pos) # NoMove
                    THEN Return(book_tier_move(data, personality, pos), "opening_book")
                    ELSE pc' = "tablebase" /\ UNCHANGED <<move, source>>
       ELSE /\ pc' = "tablebase"
            /\ UNCHANGED <<trace, bookCache, move, source>>
    /\ UNCHANGED <<caller, ply, histLen, pos, bookEnabled, tbEnabled, engineUp,
                   agentReg, personality, tbCache, positionCache, candidates,
                   attempt, error, tbResult, calls>>
    /\ UNCHANGED <<callVars, orchestratorVars, requestVars, envVars, runVars, storeVars>>

\* Tier 2: tablebase.
TablebaseTier ==
    /\ pc = "tablebase"
    /\ IF tbEnabled
       THEN /\ trace' = Append(trace, "tablebase")
            /\ \E resp \in TbApiOutcomes :
                 LET result ==
                       IF tbCache[pos] # NoTbResult THEN tbCache[pos]
                       ELSE IF ~should_query_tablebase(pos) THEN NoTbResult
                       ELSE IF resp.status = "moves" THEN TbResultOf(resp)
                       ELSE NoTbResult
                 IN /\ tbCache' = [tbCache EXCEPT ![pos] = result]
                    /\ tbResult' = result
                    /\ IF tablebase_accepts(result, pos)
                       THEN Return(result.uci, "tablebase")
                       ELSE pc' = "engine" /\ UNCHANGED <<move, source>>
       ELSE /\ pc' = "engine"
            /\ UNCHANGED <<trace, tbCache, tbResult, move, source>>
    /\ UNCHANGED <<caller, ply, histLen, pos, bookEnabled, tbEnabled, engineUp,
                   agentReg, personality, bookCache, positionCache, candidates,
                   attempt, error, calls>>
    /\ UNCHANGED <<callVars, orchestratorVars, requestVars, envVars, runVars, storeVars>>

\* after_top_moves with the bug of skipping the agent for a single candidate
after_top_moves_needs_two(top_moves, registered) ==
    IF Len(top_moves) > 1 /\ registered THEN "hybrid" ELSE "fallback"

\* after_top_moves with the bug of not catching the set-up error
after_top_moves_uncaught(top_moves, registered) ==
    IF top_moves = <<>> THEN "fallback"
    ELSE IF registered THEN "hybrid" ELSE "raised"

\* where get_move goes once it has top_moves: the retry loop of
\* _get_hybrid_agent_move, or the pure fallback when the list is empty or
\* the set-up raises ValueError because the agent is missing
after_top_moves(top_moves, registered) ==
    IF top_moves # <<>> /\ registered THEN "hybrid" ELSE "fallback"

\* Tier 3 entry: is_available, get_top_moves and the set-up of
\* _get_hybrid_agent_move.  A missing agent makes the set-up raise
\* ValueError, which get_move catches and answers with the pure fallback.
EngineTier ==
    /\ pc = "engine"
    /\ IF ~engineUp
       THEN /\ pc' = "fallback"
            /\ UNCHANGED <<trace, positionCache, candidates>>
       ELSE /\ trace' = Append(trace, "top_moves")
            /\ \E analysed \in CandidateLists(pos) :
                 LET cached == get_cached_position(positionCache, game_id, pos)
                     top_moves == IF cached # <<>> THEN cached ELSE analysed
                 IN /\ positionCache' =
                          [positionCache EXCEPT ![game_id][pos] = top_moves]
                    /\ candidates' = top_moves
                    /\ pc' = after_top_moves(top_moves, agentReg)
    /\ attempt' = 0
    /\ UNCHANGED <<caller, ply, histLen, pos, bookEnabled, tbEnabled, engineUp,
                   agentReg, personality, bookCache, tbCache, move, source,
                   error, tbResult, calls>>
    /\ UNCHANGED <<callVars, orchestratorVars, requestVars, envVars, runVars, storeVars>>

\* HybridAttempt with the tier giving up after its last attempt and handing
\* the ply to the pure fallback
HybridAttempt_gives_up ==
    /\ pc = "hybrid"
    /\ trace' = Append(trace, "agent_hybrid")
    /\ \E out \in AgentOutcomes :
         LET selected == hybrid_attempt(out, candidates)
         IN IF selected # NoMove
            THEN Return(selected, "hybrid") /\ attempt' = attempt
            ELSE IF loop_continues(attempt)
            THEN /\ attempt' = attempt + 1
                 /\ UNCHANGED <<pc, move, source>>
            ELSE /\ attempt' = 0
                 /\ pc' = "fallback"
                 /\ UNCHANGED <<move, source>>
    /\ UNCHANGED <<caller, ply, histLen, pos, bookEnabled, tbEnabled, engineUp,
                   agentReg, personality, bookCache, tbCache, positionCache,
                   candidates, error, tbResult, calls>>
    /\ UNCHANGED <<callVars, orchestratorVars, requestVars, envVars, runVars, storeVars>>

\* Tier 3: one pass of the retry loop of _get_hybrid_agent_move.  When the
\* last attempt fails the loop ends and the top candidate is returned.
HybridAttempt ==
    /\ pc = "hybrid"
    /\ trace' = Append(trace, "agent_hybrid")
    /\ \E out \in AgentOutcomes :
         LET selected == hybrid_attempt(out, candidates)
         IN IF selected # NoMove
            THEN Return(selected, "hybrid") /\ attempt' = attempt
            ELSE IF loop_continues(attempt)
            THEN /\ attempt' = attempt + 1
                 /\ UNCHANGED <<pc, move, source>>
            ELSE /\ attempt' = attempt + 1
                 /\ Return(top_candidate(candidates), "hybrid")
    /\ UNCHANGED <<caller, ply, histLen, pos, bookEnabled, tbEnabled, engineUp,
                   agentReg, personality, bookCache, tbCache, positionCache,
                   candidates, error, tbResult, calls>>
    /\ UNCHANGED <<callVars, orchestratorVars, requestVars, envVars, runVars, storeVars>>

\* Tier 4, agent missing: get_agent_move raises before any attempt.
FallbackNoAgent ==
    /\ pc = "fallback"
    /\ ~agentReg
    /\ pc' = "raised"
    /\ error' = "agent_not_found"
    /\ UNCHANGED <<caller, ply, histLen, pos, bookEnabled, tbEnabled, engineUp,
                   agentReg, personality, bookCache, tbCache, positionCache,
                   candidates, attempt, move, source, tbResult, trace, calls>>
    /\ UNCHANGED <<callVars, orchestratorVars, requestVars, envVars, runVars, storeVars>>

\* Tier 4: one pass of the retry loop of get_agent_move over the legal
\* moves.  When the last attempt fails get_agent_move raises ValueError.
FallbackAttempt ==
    /\ pc = "fallback"
    /\ agentReg
    /\ trace' = Append(trace, "agent_fallback")
    /\ \E out \in AgentOutcomes :
         LET selected == fallback_attempt(out, LegalMoves(pos))
         IN IF selected # NoMove
            THEN Return(selected, "llm-fallback") /\ UNCHANGED <<attempt, error>>
            ELSE IF loop_continues(attempt)
            THEN /\ attempt' = attempt + 1
                 /\ UNCHANGED <<pc, move, source, error>>
            ELSE /\ attempt' = attempt + 1
                 /\ pc' = "raised"
                 /\ error' = "retries_exhausted"
                 /\ UNCHANGED <<move, source>>
    /\ UNCHANGED <<caller, ply, histLen, pos, bookEnabled, tbEnabled, engineUp,
                   agentReg, personality, bookCache, tbCache, positionCache,
                   candidates, tbResult, calls>>
    /\ UNCHANGED <<callVars, orchestratorVars, requestVars, envVars, runVars, storeVars>>

\* The caller executes the returned move (env.step): the ply is played.
Execute ==
    /\ pc = "done"
    /\ ply' = ply + 1
    /\ pos' \in Positions
    /\ pc' = "played"
    /\ UNCHANGED <<caller, histLen, bookEnabled, tbEnabled, engineUp, agentReg,
                   personality, bookCache, tbCache, positionCache, candidates,
                   attempt, move, source, error, tbResult, trace, calls>>
    /\ UNCHANGED <<callVars, orchestratorVars, requestVars, envVars, runVars, storeVars>>

\* StockfishEvaluator.close between two plies: the engine is gone and the
\* position cache is cleared.
Close ==
    /\ pc = "idle"
    /\ engineUp
    /\ engineUp' = FALSE
    /\ positionCache' = EmptyPositionCache
    /\ UNCHANGED <<caller, ply, histLen, pos, pc, bookEnabled, tbEnabled,
                   agentReg, personality, bookCache, tbCache, candidates,
                   attempt, move, source, error, tbResult, trace, calls>>
    /\ UNCHANGED <<callVars, orchestratorVars, requestVars, envVars, runVars, storeVars>>

\* the plies at which the move request is explored: the opening move and
\* the plies around the end of the book phase
PlyWindow == {0} \cup ((BookMaxMove - 2)..MaxPly)

\* The book cache before the request: empty, or (within run_game, whose
\* orchestrator lives as long as the game) holding the response cached at
\* an earlier position of the game.
BookCachesAtStart(c) ==
    IF c = "run_game"
    THEN {<<>>, <<[fen |-> "earlier", data |-> BookJson(<<>>)]>>}
    ELSE {<<>>}

Init ==
    /\ caller \in {"run_game", "agent_move"}
    /\ ply \in PlyWindow
    /\ histLen = 0
    /\ pos \in Positions
    /\ pc = "idle"
    /\ bookEnabled \in BOOLEAN
    /\ tbEnabled \in BOOLEAN
    /\ engineUp = TRUE
    /\ agentReg = TRUE
    /\ personality = "balanced"
    /\ bookCache \in (IF bookEnabled THEN BookCachesAtStart(caller) ELSE {<<>>})
    /\ tbCache = EmptyTbCache
    /\ positionCache = EmptyPositionCache
    /\ candidates = <<>>
    /\ attempt = 0
    /\ move = NoMove
    /\ source = "none"
    /\ error = "none"
    /\ tbResult = NoTbResult
    /\ trace = <<>>
    /\ calls = 0
    /\ CallAtRest
    /\ OrchestratorAtRest
    /\ RequestsAtRest
    /\ EnvAtRest
    /\ RunAtRest
    /\ StoreAtRest

Next ==
    \/ Call
    \/ BookTier
    \/ TablebaseTier
    \/ EngineTier
    \/ HybridAttempt
    \/ FallbackNoAgent
    \/ FallbackAttempt
    \/ Execute
    \/ Close

Spec == Init /\ [][Next]_vars

(***************************************************************************)
(* Properties of get_move.                                                 *)
(***************************************************************************)
\* number of occurrences of event e in the trace of the ply
Count(e) == Cardinality({i \in 1..Len(trace) : trace[i] = e})

\* get_move has returned (move, source) and the move is not yet executed
Returned == pc = "done"

\* C1: whenever get_move returns (move, source), the move is a legal move of
\* the input board, in every tier, including the top-candidate fallback of
\* the engine-constrained tier after exhausted retries.
C1_ReturnedMoveLegal ==
    Returned => (move # NoMove /\ ValidUci(move) /\ IsLegal(move, pos))

\* the engine-constrained tier returned its top candidate after all retries
C1_Witness ==
    /\ Returned
    /\ source = "hybrid"
    /\ Count("agent_hybrid") = max_retries
    /\ attempt = max_retries
    /\ IsLegal(move, pos)

\* C2 (as claimed): when neither the book nor the tablebase gave the move,
\* get_move returns 'hybrid' if the evaluation source is available and
\* 'llm-fallback' if it is unavailable.
C2_Original ==
    (Returned /\ source \notin {"opening_book", "tablebase"})
        => source = (IF engineUp THEN "hybrid" ELSE "llm-fallback")

\* C2 (amended): when neither the book nor the tablebase gave the move,
\* get_move returns 'hybrid' if the evaluation source is available and
\* returned a non-empty candidate list, and 'llm-fallback' if it is
\* unavailable or returned no candidates.
C2_Precedence ==
    (Returned /\ source \notin {"opening_book", "tablebase"})
        => source = (IF engineUp /\ candidates # <<>> THEN "hybrid"
                     ELSE "llm-fallback")

\* book and tablebase disabled, the engine answered with an empty list and
\* the pure fallback returned
C2_Witness ==
    /\ Returned
    /\ ~bookEnabled /\ ~tbEnabled
    /\ engineUp
    /\ Count("top_moves") = 1
    /\ candidates = <<>>
    /\ source = "llm-fallback"

\* rank of a collaborator call in the priority order of the tiers
TierRank(e) ==
    CASE e = "book" -> 1
      [] e = "tablebase" -> 2
      [] e = "top_moves" -> 3
      [] e = "agent_hybrid" -> 4
      [] e = "agent_fallback" -> 5

\* C3: within one get_move call the collaborators are consulted in the order
\* book, tablebase, top-moves request, constrained agent, pure-fallback
\* agent, the first three at most once; once a book move is accepted nothing
\* but the book was consulted in the ply, and once a tablebase move is
\* accepted no top-moves request and no agent invocation was made.
C3_TierOrder ==
    /\ \A i \in 1..Len(trace) : \A j \in (i + 1)..Len(trace) :
          /\ TierRank(trace[i]) <= TierRank(trace[j])
          /\ TierRank(trace[i]) <= 3 => TierRank(trace[i]) < TierRank(trace[j])
    /\ source = "opening_book" => trace = <<"book">>
    /\ source = "tablebase" =>
          /\ trace \in {<<"tablebase">>, <<"book", "tablebase">>}
    /\ Count("agent_hybrid") > 0 => Count("top_moves") = 1

\* a tablebase move was accepted after the book had been asked and failed
C3_Witness ==
    /\ source = "tablebase"
    /\ trace = <<"book", "tablebase">>
    /\ pc = "played"

\* C4: get_move returns the tag 'tablebase' only if the tablebase result of
\* the position is classified winning or drawing for the side to move; with
\* a result classified as a loss the tablebase move is not the tablebase
\* decision and the move comes from tier 3 or 4.
C4_TablebaseLosingSkip ==
    /\ source = "tablebase" =>
          /\ tbResult # NoTbResult
          /\ move = tbResult.uci
          /\ is_winning(tbResult.wdl) \/ is_drawing(tbResult.wdl)
    /\ (Returned /\ tbResult # NoTbResult /\ is_losing(tbResult.wdl)) =>
          /\ source \in {"hybrid", "llm-fallback"}
          /\ Count("top_moves") + Count("agent_fallback") > 0

\* the tablebase named a legal move in a lost position and tier 3 decided
C4_Witness ==
    /\ Returned
    /\ tbResult # NoTbResult
    /\ is_losing(tbResult.wdl)
    /\ IsLegal(tbResult.uci, pos)
    /\ source = "hybrid"

\* C5: whenever get_move returns the tag 'hybrid', the returned move is a
\* member of the candidate list the evaluation source returned for the ply.
C5_HybridMoveInCandidates ==
    source = "hybrid" =>
        \E i \in 1..Len(candidates) : candidates[i].move = move

\* the agent's choice was accepted although another legal move was not
\* among the candidates
C5_Witness ==
    /\ Returned
    /\ source = "hybrid"
    /\ Len(candidates) = 1
    /\ Count("agent_hybrid") < max_retries
    /\ attempt < max_retries

BestScored(cands, p) ==
    CHOOSE c \in Range(cands) :
        \A d \in Range(cands) :
            IF WhiteToMove(p) THEN c.cp >= d.cp ELSE c.cp <= d.cp

\* C7 (as claimed): the engine-constrained tier never fails once it has a
\* non-empty candidate list.
C7_Original ==
    candidates # <<>> =>
        (pc \notin {"fallback", "raised"} /\ source # "llm-fallback")

\* C7 (amended): once it has a non-empty candidate list and the agent is
\* registered, the engine-constrained tier never fails; if all max_retries
\* attempts fail, the best-scored candidate is returned with tag 'hybrid'.
C7_TopCandidateFallback ==
    /\ (candidates # <<>> /\ agentReg) =>
          /\ pc \notin {"fallback", "raised"}
          /\ source \in {"none", "hybrid"}
          /\ Returned => source = "hybrid"
    /\ (Returned /\ source = "hybrid" /\ attempt = max_retries) =>
          move = BestScored(candidates, pos).move

\* black to move, two candidates, every attempt failed
C7_Witness ==
    /\ Returned
    /\ source = "hybrid"
    /\ attempt = max_retries
    /\ Len(candidates) = 2
    /\ ~WhiteToMove(pos)
    /\ move = BestScored(candidates, pos).move

DownstreamState ==
    <<caller, ply, histLen, pos, bookEnabled, tbEnabled, engineUp, agentReg,
      personality, positionCache, candidates, attempt, move, source, error,
      calls>>

\* C9: a timeout, exception, empty result or illegal/unparsable move of the
\* book or of the tablebase is never surfaced: the step of that tier either
\* returns a legal move without error, or hands over to the next tier in
\* the state a disabled tier would have left (only the tier's own cache and
\* the call trace differ).
C9_TierFailureSilent ==
    [][ /\ (pc = "book" /\ pc' # "done") =>
              (pc' = "tablebase" /\ UNCHANGED <<DownstreamState, tbCache, tbResult>>)
        /\ (pc = "tablebase" /\ pc' # "done") =>
              (pc' = "engine" /\ UNCHANGED <<DownstreamState, bookCache>>)
        /\ (pc \in {"book", "tablebase"} /\ pc' = "done") =>
              (IsLegal(move', pos) /\ error' = "none")
      ]_vars

\* the book was asked and gave nothing usable, the tablebase named an
\* illegal move, and the engine tier is next
C9_Witness ==
    /\ pc = "engine"
    /\ trace = <<"book", "tablebase">>
    /\ tbResult # NoTbResult
    /\ ~IsLegal(tbResult.uci, pos)
    /\ error = "none"

\* a get_move call for the current ply is in progress or has just ended
InCall == pc \in {"book", "tablebase", "engine", "hybrid", "fallback",
                  "done", "raised"}

\* C10: at every ply whose number exceeds 15 the book is not queried and no
\* move is returned with tag 'opening_book', whichever caller reaches
\* get_move.
C10_BookOnlyInOpening ==
    (InCall /\ ply + 1 > BookMaxMove) =>
        (Count("book") = 0 /\ source # "opening_book")

(***************************************************************************)
(* OpeningBookClient.select_opening_move as a function of its arguments.   *)
(***************************************************************************)
\* five book moves with draw rates 0.6 0.5 0.4 0.3 0.2 and 100 90 80 10 5
\* games
ScenarioMoves ==
    << BookEntry("e2e4", 20, 60, 20),
       BookEntry("d2d4", 25, 45, 20),
       BookEntry("g1f3", 28, 32, 20),
       BookEntry("c2c4", 4, 3, 3),
       BookEntry("b1c3", 2, 1, 2) >>

\* the entries lists are built from: the scenario's, one with the statistics
\* of another move (equal sort keys), one without games (draw_rate 0.0)
OpeningMoves ==
    Range(ScenarioMoves)
        \cup {BookEntry("a2a4", 20, 60, 20), BookEntry("h2h4", 0, 0, 0)}

OpeningMoveLists ==
    UNION {[1..n -> OpeningMoves] : n \in 0..MaxBookMoves} \cup {ScenarioMoves}

\* every personality of ChessAgentManager.SYSTEM_PROMPTS
BookPersonalities == Personalities \cup {"tactical", "positional"}

SelectOpeningInit ==
    /\ args \in {[opening_moves |-> l, personality |-> p] :
                    l \in OpeningMoveLists, p \in BookPersonalities}
    /\ ret = NotCalled
    /\ SelectorAtRest
    /\ OrchestratorAtRest
    /\ RequestsAtRest
    /\ EnvAtRest
    /\ RunAtRest
    /\ StoreAtRest

SelectOpeningMove ==
    /\ ~ret.done
    /\ ret' = Returning(select_opening_move(args.opening_moves, args.personality))
    /\ UNCHANGED <<args, selectorVars, orchestratorVars, requestVars, envVars, runVars, storeVars>>

SpecSelectOpening == SelectOpeningInit /\ [][SelectOpeningMove]_vars

\* The score the rule names, as the fraction StatedScoreNum / StatedScoreDen:
\* games * 0.5 + draw_rate * 1000 for "aggressive" and
\* games * 0.5 + (1 - draw_rate) * 1000 for "defensive", where draw_rate is
\* draws / games (0 for a move without games).
StatedGames(m) == m.white + m.draws + m.black

StatedScoreDen(m) == IF StatedGames(m) = 0 THEN 2 ELSE 2 * StatedGames(m)

StatedScoreNum(m, pers) ==
    LET g == StatedGames(m)
        rateNum == IF g = 0 THEN 0 ELSE m.draws
        rateDen == IF g = 0 THEN 1 ELSE g
    IN IF pers = "aggressive"
       THEN g * rateDen + 2000 * rateNum
       ELSE g * rateDen + 2000 * (rateDen - rateNum)

\* entry a ranks strictly above entry b for the personality
StatedAbove(a, b, pers) ==
    IF pers \in {"aggressive", "defensive"}
    THEN StatedScoreNum(a, pers) * StatedScoreDen(b)
             > StatedScoreNum(b, pers) * StatedScoreDen(a)
    ELSE StatedGames(a) > StatedGames(b)

\* C11: select_opening_move returns a move of the list that no other move of
\* the list outranks: by games*0.5 + draw_rate*1000 for "aggressive", by
\* games*0.5 + (1-draw_rate)*1000 for "defensive", by games for every other
\* personality; on the scenario list "aggressive" gets the 0.6-draw-rate
\* move and "defensive" the 0.2-draw-rate move.
C11_SelectByPersonality ==
    (ret.done /\ args.opening_moves # <<>>) =>
        LET l == args.opening_moves
        IN /\ \E i \in 1..Len(l) :
                 /\ l[i].uci = ret.value
                 /\ \A j \in 1..Len(l) : ~StatedAbove(l[j], l[i], args.personality)
           /\ (l = ScenarioMoves /\ args.personality = "aggressive")
                 => ret.value = ScenarioMoves[1].uci
           /\ (l = ScenarioMoves /\ args.personality = "defensive")
                 => ret.value = ScenarioMoves[5].uci

C11_Witness ==
    /\ args.opening_moves = ScenarioMoves
    /\ args.personality = "defensive"
    /\ ret = Returning("b1c3")

(***************************************************************************)
(* One pass of the retry loop of _get_hybrid_agent_move as a function of   *)
(* the agent's response and the candidate list.                            *)
(***************************************************************************)
HybridAttemptInit ==
    /\ args \in {[out |-> o, cands |-> c] :
                    o \in AgentOutcomes,
                    c \in UNION {CandidateLists(p) \ {<<>>} : p \in Positions}}
    /\ ret = NotCalled
    /\ SelectorAtRest
    /\ OrchestratorAtRest
    /\ RequestsAtRest
    /\ EnvAtRest
    /\ RunAtRest
    /\ StoreAtRest

\* selected_move of the pass; NoMove: the pass logs a warning and the loop
\* goes on to the next attempt
HybridAttemptCall ==
    /\ ~ret.done
    /\ ret' = Returning(hybrid_attempt(args.out, args.cands))
    /\ UNCHANGED <<args, selectorVars, orchestratorVars, requestVars, envVars, runVars, storeVars>>

SpecHybridAttempt == HybridAttemptInit /\ [][HybridAttemptCall]_vars

\* the candidate moves that occur in the response, once it is lower-cased
\* and stripped of its tags
Occurring(out, cands) ==
    {m \in Range(candidate_moves(cands)) :
        \E i \in 1..Len(out.text) : CleanWord(out.text[i]) = m}

NoEvaluation == [kind |-> "none", cp |-> 0]
EmptyEvaluation == [kind |-> "empty", cp |-> 0]
EvaluationWithoutCp == [kind |-> "no_cp", cp |-> 0]
EvaluationCp(c) == [kind |-> "cp", cp |-> c]

\* "if evaluation": a non-empty dict
Truthy(evaluation) == evaluation.kind \in {"no_cp", "cp"}

Abs(x) == IF x < 0 THEN 0 - x ELSE x

Min(a, b) == IF a <= b THEN a ELSE b

calculate_tactical_density(board) ==
    (IF board.is_check THEN 10 ELSE 0)
        + Min(board.captures * 2, 10)
        + Min(board.attacks, 10)

\* calculate_evaluation_volatility with inclusive thresholds
calculate_evaluation_volatility_inclusive(evaluation) ==
    IF evaluation.kind # "cp" THEN 0
    ELSE IF Abs(evaluation.cp) >= 200 THEN 25
    ELSE IF Abs(evaluation.cp) >= 100 THEN 15
    ELSE IF Abs(evaluation.cp) >= 50 THEN 10
    ELSE 0

calculate_evaluation_volatility(evaluation) ==
    IF evaluation.kind # "cp" THEN 0
    ELSE IF Abs(evaluation.cp) > 200 THEN 25
    ELSE IF Abs(evaluation.cp) > 100 THEN 15
    ELSE IF Abs(evaluation.cp) > 50 THEN 10
    ELSE 0

\* points one replayed move adds: pawn move 5, capture 8, castling 7,
\* king move 5 (castling is a king move)
MoveKinds ==
    {"piece", "pawn", "capture", "pawn_capture", "king", "king_capture",
     "castling"}

MovePoints(kind) ==
    CASE kind = "piece" -> 0
      [] kind = "pawn" -> 5
      [] kind = "capture" -> 8
      [] kind = "pawn_capture" -> 5 + 8
      [] kind = "king" -> 5
      [] kind = "king_capture" -> 8 + 5
      [] kind = "castling" -> 7 + 5

\* the score the loop over recent_history[-2:] has accumulated when it ends
\* or when the try block is left through the except clause
ReplayScore(replay) ==
    IF replay[1] = "raises" THEN 0
    ELSE IF replay[2] = "raises" THEN MovePoints(replay[1])
    ELSE MovePoints(replay[1]) + MovePoints(replay[2])

\* calculate_structural_changes without the final min(score, 20)
calculate_structural_changes_uncapped(recent_history) ==
    IF recent_history.len < 2 THEN 0
    ELSE ReplayScore(recent_history.replay)

calculate_structural_changes(recent_history) ==
    IF recent_history.len < 2 THEN 0
    ELSE Min(ReplayScore(recent_history.replay), 20)

calculate_material_imbalance(board) ==
    IF board.imbalance >= 3 THEN 15
    ELSE IF board.imbalance = 2 THEN 12
    ELSE IF board.imbalance = 1 THEN 8
    ELSE 0

detect_phase_transition(board, recent_history) ==
    IF 12 <= recent_history.len /\ recent_history.len <= 18 THEN 10
    ELSE IF recent_history.len > 20 /\ (board.pieces <= 8 \/ board.queens = 0)
    THEN 10
    ELSE 0

\* The call returns [raised, score, tactical, volatility, structural,
\* material, phase].  The three history-based parts are only computed for a
\* non-empty recent_history (volatility only with an evaluation too); the
\* logger.debug call before the return reads volatility_score whenever the
\* evaluation is truthy, which raises UnboundLocalError when the history is
\* empty.
calculate_position_interest(board, evaluation, recent_history) ==
    LET has_history == recent_history.len > 0
        tactical_score == calculate_tactical_density(board)
        volatility_score ==
            IF Truthy(evaluation) /\ has_history
            THEN calculate_evaluation_volatility(evaluation) ELSE 0
        structural_score ==
            IF has_history THEN calculate_structural_changes(recent_history) ELSE 0
        material_score == calculate_material_imbalance(board)
        phase_score ==
            IF has_history THEN detect_phase_transition(board, recent_history) ELSE 0
        score == tactical_score + volatility_score + structural_score
                     + material_score + phase_score
    IN [raised |-> Truthy(evaluation) /\ ~has_history,
        score |-> Min(score, 100),
        tactical |-> tactical_score,
        volatility |-> volatility_score,
        structural |-> structural_score,
        material |-> material_score,
        phase |-> phase_score]

Boards ==
    [is_check : BOOLEAN, captures : {0, 7}, attacks : {0, 16},
     imbalance : {0, 1, 2, 5}, pieces : {6, 14}, queens : {0, 2}]

Evaluations ==
    {NoEvaluation, EmptyEvaluation, EvaluationWithoutCp,
     EvaluationCp(60), EvaluationCp(0 - 120), EvaluationCp(250),
     EvaluationCp(50), EvaluationCp(100), EvaluationCp(200),
     EvaluationCp(0 - 200)}

Replays ==
    {<<"raises", "raises">>}
        \cup {<<a, b>> : a \in MoveKinds, b \in MoveKinds \cup {"raises"}}

RecentHistories ==
    {[len |-> n, replay |-> <<"raises", "raises">>] : n \in {0, 1}}
        \cup {[len |-> n, replay |-> r] : n \in {2, 12, 21}, r \in Replays}

PositionInterestInit ==
    /\ args \in [board : Boards, evaluation : Evaluations,
                 recent_history : RecentHistories]
    /\ ret = NotCalled
    /\ SelectorAtRest
    /\ OrchestratorAtRest
    /\ RequestsAtRest
    /\ EnvAtRest
    /\ RunAtRest
    /\ StoreAtRest

PositionInterestCall ==
    /\ ~ret.done
    /\ ret' = Returning(calculate_position_interest(
                  args.board, args.evaluation, args.recent_history))
    /\ UNCHANGED <<args, selectorVars, orchestratorVars, requestVars, envVars, runVars, storeVars>>

SpecPositionInterest == PositionInterestInit /\ [][PositionInterestCall]_vars

\* C13: whenever calculate_position_interest returns, the score is within
\* 0..100 and the five parts are within their caps: tactical 30,
\* volatility 25, structural 20, material 15, phase 10.
C13_InterestBounds ==
    (ret.done /\ ~ret.value.raised) =>
        /\ ret.value.score \in 0..100
        /\ ret.value.tactical \in 0..30
        /\ ret.value.volatility \in 0..25
        /\ ret.value.structural \in 0..20
        /\ ret.value.material \in 0..15
        /\ ret.value.phase \in 0..10

\* a call in which the replayed moves add up to more than 20 points and
\* every part reaches its cap
C13_Witness ==
    /\ ret.done
    /\ ~ret.value.raised
    /\ ReplayScore(args.recent_history.replay) > 20
    /\ ret.value.structural = 20
    /\ ret.value.score = 100

\* C39: calculate_position_interest returns a score without raising for
\* every combination of its optional inputs: evaluation absent, empty or
\* given, recent history absent or empty (length 0) or non-empty.
C39_InterestNeverRaises ==
    ret.done => (~ret.value.raised /\ ret.value.score \in 0..100)

\* a call of calculate_position_interest that reached
\* _calculate_evaluation_volatility with an evaluation holding "cp"
VolatilityScored ==
    /\ ret.done
    /\ ~ret.value.raised
    /\ args.evaluation.kind = "cp"
    /\ args.recent_history.len > 0

\* C31 as stated: the volatility sub-score follows the magnitude m of the
\* evaluation with inclusive thresholds: m >= 200 gives 25, m >= 100 gives
\* 15, m >= 50 gives 10, less gives 0.
C31_Original ==
    VolatilityScored =>
        LET m == Abs(args.evaluation.cp)
        IN ret.value.volatility =
               IF m >= 200 THEN 25
               ELSE IF m >= 100 THEN 15
               ELSE IF m >= 50 THEN 10
               ELSE 0

\* C31: the volatility sub-score follows the magnitude m of the evaluation
\* with exclusive thresholds: m > 200 gives 25, 100 < m <= 200 gives 15,
\* 50 < m <= 100 gives 10, m <= 50 gives 0 (so m = 200, 100, 50 give
\* 15, 10, 0).
C31_VolatilityThresholds ==
    VolatilityScored =>
        LET m == Abs(args.evaluation.cp)
        IN /\ m > 200 => ret.value.volatility = 25
           /\ (100 < m /\ m <= 200) => ret.value.volatility = 15
           /\ (50 < m /\ m <= 100) => ret.value.volatility = 10
           /\ m <= 50 => ret.value.volatility = 0

\* a call with a centipawn value of exactly -200, scored 15
C31_Witness ==
    /\ VolatilityScored
    /\ args.evaluation.cp = 0 - 200
    /\ ret.value.volatility = 15

(***************************************************************************)
(* CommentaryStrategist.should_generate_commentary.                        *)
(***************************************************************************)
Verdict(d, r) == [decision |-> d, reason |-> r]

\* "if evaluation and 'cp' in evaluation"
HasCp(evaluation) == evaluation.kind = "cp"

\* should_generate_commentary with the moderate-interest test moved in
\* front of the tests on the silence
should_generate_commentary_interest_first(interest_score, moves_since_last_commentary, evaluation, just_after_tactical) ==
    IF interest_score >= 75
    THEN Verdict("critical_moment", "high_interest_score")
    ELSE IF HasCp(evaluation) /\ Abs(evaluation.cp) > 150
    THEN Verdict("critical_moment", "large_evaluation_swing")
    ELSE IF interest_score >= 60
    THEN Verdict("move_comment", "moderate_interest")
    ELSE IF moves_since_last_commentary >= 8
    THEN Verdict("strategic_overview", "many_moves_without_commentary")
    ELSE IF just_after_tactical /\ moves_since_last_commentary >= 4
    THEN Verdict("strategic_overview", "position_stabilized_after_tactics")
    ELSE IF moves_since_last_commentary >= 5 /\ interest_score < 40
    THEN Verdict("strategic_overview", "quiet_position_needs_overview")
    ELSE IF HasCp(evaluation) /\ Abs(evaluation.cp) > 75
            /\ moves_since_last_commentary >= 2
    THEN Verdict("move_comment", "evaluation_change")
    ELSE IF interest_score < 30 /\ moves_since_last_commentary < 5
    THEN Verdict("skip", "low_interest_and_recent_commentary")
    ELSE IF moves_since_last_commentary >= 3
    THEN Verdict("move_comment", "minimum_move_threshold")
    ELSE Verdict("skip", "default_skip")

\* should_generate_commentary with a default cadence of 6 plies
should_generate_commentary_late_default(interest_score, moves_since_last_commentary, evaluation, just_after_tactical) ==
    IF interest_score >= 75
    THEN Verdict("critical_moment", "high_interest_score")
    ELSE IF HasCp(evaluation) /\ Abs(evaluation.cp) > 150
    THEN Verdict("critical_moment", "large_evaluation_swing")
    ELSE IF moves_since_last_commentary >= 8
    THEN Verdict("strategic_overview", "many_moves_without_commentary")
    ELSE IF just_after_tactical /\ moves_since_last_commentary >= 4
    THEN Verdict("strategic_overview", "position_stabilized_after_tactics")
    ELSE IF moves_since_last_commentary >= 5 /\ interest_score < 40
    THEN Verdict("strategic_overview", "quiet_position_needs_overview")
    ELSE IF interest_score >= 60
    THEN Verdict("move_comment", "moderate_interest")
    ELSE IF HasCp(evaluation) /\ Abs(evaluation.cp) > 75
            /\ moves_since_last_commentary >= 2
    THEN Verdict("move_comment", "evaluation_change")
    ELSE IF interest_score < 30 /\ moves_since_last_commentary < 5
    THEN Verdict("skip", "low_interest_and_recent_commentary")
    ELSE IF moves_since_last_commentary >= 6
    THEN Verdict("move_comment", "minimum_move_threshold")
    ELSE Verdict("skip", "default_skip")

should_generate_commentary(interest_score, moves_since_last_commentary, evaluation, just_after_tactical) ==
    IF interest_score >= 75
    THEN Verdict("critical_moment", "high_interest_score")
    ELSE IF HasCp(evaluation) /\ Abs(evaluation.cp) > 150
    THEN Verdict("critical_moment", "large_evaluation_swing")
    ELSE IF moves_since_last_commentary >= 8
    THEN Verdict("strategic_overview", "many_moves_without_commentary")
    ELSE IF just_after_tactical /\ moves_since_last_commentary >= 4
    THEN Verdict("strategic_overview", "position_stabilized_after_tactics")
    ELSE IF moves_since_last_commentary >= 5 /\ interest_score < 40
    THEN Verdict("strategic_overview", "quiet_position_needs_overview")
    ELSE IF interest_score >= 60
    THEN Verdict("move_comment", "moderate_interest")
    ELSE IF HasCp(evaluation) /\ Abs(evaluation.cp) > 75
            /\ moves_since_last_commentary >= 2
    THEN Verdict("move_comment", "evaluation_change")
    ELSE IF interest_score < 30 /\ moves_since_last_commentary < 5
    THEN Verdict("skip", "low_interest_and_recent_commentary")
    ELSE IF moves_since_last_commentary >= 3
    THEN Verdict("move_comment", "minimum_move_threshold")
    ELSE Verdict("skip", "default_skip")

InterestScores == {0, 20, 29, 30, 39, 40, 59, 60, 74, 75, 80, 100}

SwingEvaluations ==
    {NoEvaluation, EvaluationWithoutCp}
        \cup {EvaluationCp(c) : c \in {0, 75, 76, 0 - 76, 150, 151, 0 - 151}}

DecisionInit ==
    /\ args \in [interest_score : InterestScores,
                 moves_since_last_commentary : 0..MaxSilence,
                 evaluation : SwingEvaluations,
                 just_after_tactical : BOOLEAN]
    /\ ret = NotCalled
    /\ SelectorAtRest
    /\ OrchestratorAtRest
    /\ RequestsAtRest
    /\ EnvAtRest
    /\ RunAtRest
    /\ StoreAtRest

DecisionCall ==
    /\ ~ret.done
    /\ ret' = Returning(should_generate_commentary(
                  args.interest_score, args.moves_since_last_commentary,
                  args.evaluation, args.just_after_tactical))
    /\ UNCHANGED <<args, selectorVars, orchestratorVars, requestVars, envVars, runVars, storeVars>>

SpecDecision == DecisionInit /\ [][DecisionCall]_vars

\* the ten rules of the table: the condition of rule n on the arguments a
\* and the decision rule n gives
RuleMatches(n, a) ==
    LET swing == IF a.evaluation.kind = "cp" THEN Abs(a.evaluation.cp) ELSE 0
        silence == a.moves_since_last_commentary
    IN CASE n = 1 -> a.interest_score >= 75
         [] n = 2 -> swing > 150
         [] n = 3 -> silence >= 8
         [] n = 4 -> a.just_after_tactical /\ silence >= 4
         [] n = 5 -> silence >= 5 /\ a.interest_score < 40
         [] n = 6 -> a.interest_score >= 60
         [] n = 7 -> swing > 75 /\ silence >= 2
         [] n = 8 -> a.interest_score < 30 /\ silence < 5
         [] n = 9 -> silence >= 3
         [] n = 10 -> TRUE

RuleDecision(n) ==
    CASE n \in {1, 2} -> "critical_moment"
      [] n \in {3, 4, 5} -> "strategic_overview"
      [] n \in {6, 7, 9} -> "move_comment"
      [] n \in {8, 10} -> "skip"

FirstMatchingRule(a) ==
    CHOOSE n \in 1..10 :
        RuleMatches(n, a) /\ \A k \in 1..(n - 1) : ~RuleMatches(k, a)

\* C14: for every combination of interest score, evaluation swing, moves
\* since the last commentary and just-after-tactical flag,
\* should_generate_commentary returns the decision of the lowest-numbered
\* rule that matches; in particular a silence of 9 with interest 20 gives a
\* strategic overview and an interest of 80 gives a critical moment.
C14_FirstMatchingRuleWins ==
    ret.done =>
        /\ ret.value.decision = RuleDecision(FirstMatchingRule(args))
        /\ (args.moves_since_last_commentary = 9 /\ args.interest_score = 20
            /\ ~(HasCp(args.evaluation) /\ Abs(args.evaluation.cp) > 150))
               => ret.value.decision = "strategic_overview"
        /\ args.interest_score = 80 => ret.value.decision = "critical_moment"

\* a call in which a later rule with another decision matches as well as
\* the rule that wins
C14_Witness ==
    /\ ret.done
    /\ args.moves_since_last_commentary = 9
    /\ args.interest_score = 60
    /\ RuleMatches(6, args)
    /\ FirstMatchingRule(args) = 3
    /\ ret.value = Verdict("strategic_overview", "many_moves_without_commentary")

\* some interest score, evaluation and flag make the decision Skip when k
\* plies have passed since the last commentary
CanSkipAt(k) ==
    \E i \in InterestScores, e \in SwingEvaluations, j \in BOOLEAN :
        should_generate_commentary(i, k, e, j).decision = "skip"

\* C38: should_generate_commentary never returns Skip when 5 or more plies
\* have passed since the last commentary, whatever the interest score, the
\* evaluation and the just-after-tactical flag; so when every other
\* decision resets the counter (the k-th ply after a commentary is decided
\* with a silence of k) no 5 consecutive plies can all be skipped.
C38_NoSkipAfterFivePlies ==
    /\ (ret.done /\ args.moves_since_last_commentary >= 5)
          => ret.value.decision # "skip"
    /\ ~(\A k \in 1..5 : CanSkipAt(k))

\* a call after a silence of 5 plies that no earlier rule decides and that
\* the default cadence turns into a move comment, while each silence of 1
\* to 4 plies can be skipped
C38_Witness ==
    /\ ret.done
    /\ args.moves_since_last_commentary = 5
    /\ args.interest_score = 40
    /\ ~HasCp(args.evaluation)
    /\ ~args.just_after_tactical
    /\ ret.value.decision = "move_comment"
    /\ \A k \in 1..4 : CanSkipAt(k)

(***************************************************************************)
(* GameOrchestrator.run_game_step: evaluation history and commentary.      *)
(* An orchestrator is built by GameOrchestrator(...) and then handed the   *)
(* environment of a game, ply by ply.  The /agent-move endpoint builds a   *)
(* new orchestrator for every request and passes move_history=[]; any      *)
(* other owner of an orchestrator passes the game's move history.          *)
(*                                                                         *)
(* A sample of evaluation_history is {"move_number", "centipawns"};        *)
(* evaluate_move returns no "centipawns" key, so the stored value is the   *)
(* default 0.  The model tags each sample with the game whose ply it       *)
(* records (the code keeps no such tag).                                   *)
(***************************************************************************)
OrchestratorGames == {"g1", "g2"}

Sample(n, g) == [move_number |-> n, centipawns |-> 0, game |-> g]

\* the append with the pop of the newest sample instead of the oldest
append_sample_drops_newest(history, sample) ==
    IF Len(history) + 1 > HistoryWindow THEN history
    ELSE Append(history, sample)

\* evaluation_history.append(...); if len > 10: evaluation_history.pop(0)
append_sample(history, sample) ==
    IF Len(history) + 1 > HistoryWindow THEN Append(Tail(history), sample)
    ELSE Append(history, sample)

\* the attributes of a BoardState object (dataclass fields)
BoardStateAttributes ==
    {"fen", "board_tensor", "legal_moves", "current_player", "is_check",
     "is_checkmate", "is_stalemate", "move_count", "fullmove_number"}

\* the parameters of CommentaryStrategist.should_generate_commentary and
\* the keywords run_game_step passes to it
StrategistParameters ==
    {"interest_score", "moves_since_last_commentary", "evaluation",
     "position_type", "just_after_tactical"}

StrategistKeywords ==
    {"interest_score", "moves_since_last", "evaluation", "position_type",
     "just_after_tactical"}

\* the except clause of the commentary block with the counter advanced
on_commentary_failure_advances(last, current_move_number) == current_move_number

\* last_commentary_move_number after the except clause of the commentary
\* block: the clause only logs
on_commentary_failure(last, current_move_number) == last

Failed(e, last, current_move_number) ==
    [failed |-> TRUE, error |-> e, decision |-> "none", commentary |-> "none",
     last |-> on_commentary_failure(last, current_move_number)]

Commented(decision, kind, last) ==
    [failed |-> FALSE, error |-> "none", decision |-> decision,
     commentary |-> kind, last |-> last]

\* just_after_tactical: abs(curr_eval - prev_eval) > 100 over the last two
\* samples
just_after_tactical(history) ==
    /\ Len(history) >= 2
    /\ Abs(history[Len(history)].centipawns
             - history[Len(history) - 1].centipawns) > 100

\* The commentary block of run_game_step (try ... except Exception).
\*   interest: what calculate_position_interest gives for the position
\*   trigger:  TriggerDetector.should_generate_commentary found a trigger
\* generate_commentary answers a rendering error with a fallback text, so
\* it returns a text in every case.
commentary_block(current_move_number, last, history, interest, trigger) ==
    LET moves_since_last == current_move_number - last
        verdict == should_generate_commentary(
                       interest, moves_since_last, EvaluationWithoutCp,
                       just_after_tactical(history))
    IN IF "board" \notin BoardStateAttributes
       THEN Failed("AttributeError", last, current_move_number)
       ELSE IF ~(StrategistKeywords \subseteq StrategistParameters)
       THEN Failed("TypeError", last, current_move_number)
       ELSE IF verdict.decision = "skip"
       THEN Commented("skip", "none", last)
       ELSE IF verdict.decision = "strategic_overview"
       THEN Commented(verdict.decision, "strategic_overview", current_move_number)
       ELSE IF trigger
       THEN Commented(verdict.decision,
                      IF verdict.decision = "critical_moment"
                      THEN "critical" ELSE "move",
                      current_move_number)
       ELSE Commented(verdict.decision, "none", last)

NoStep ==
    [kind |-> "none", game |-> "none", current_move_number |-> 0,
     moves_since_last |-> 0, interest |-> 0, checked |-> FALSE,
     failed |-> FALSE, error |-> "none", decision |-> "none",
     commentary |-> "none"]

\* The plies of each game the model follows.
PlyLimit(g) == IF g = "g1" THEN MaxSteps ELSE MaxOtherPlies

\* run_game_step(env of game g, agent_id, move_history) on an orchestrator
\* with the given flags, history and counter; hist_len is
\* len(move_history or []).  move_evaluation is a non-empty dict exactly
\* when evaluation is enabled (evaluate_move returns a dict in every case).
\*   outcome "terminated": the game is over or has no legal move (early
\*                         return of a result without a move)
\*   outcome "raises":     get_move / get_agent_move / env.step raises,
\*                         run_game_step logs and re-raises
\*   outcome "move":       the move is chosen, evaluated and executed
RunStep(g, hist_len, eval_on, comm_on, history, last, log) ==
    \E outcome \in {"terminated", "raises", "move"},
       interest \in {20, 80}, trigger \in BOOLEAN :
        LET current_move_number == hist_len + 1
            move_evaluation == eval_on
            sampled == move_evaluation /\ comm_on
            history1 == IF sampled
                        THEN append_sample(history, Sample(current_move_number, g))
                        ELSE history
            checked == comm_on /\ move_evaluation
            block == commentary_block(current_move_number, last, history1,
                                      interest, trigger)
        IN IF outcome # "move"
           THEN /\ step' = [NoStep EXCEPT !.kind = outcome, !.game = g]
                /\ evaluation_history' = history
                /\ last_commentary_move_number' = last
                /\ evaluated' = log
                /\ UNCHANGED total_moves
           ELSE /\ total_moves' = [total_moves EXCEPT ![g] = @ + 1]
                /\ evaluation_history' = history1
                /\ evaluated' = IF sampled
                                THEN Append(log, Sample(current_move_number, g))
                                ELSE log
                /\ last_commentary_move_number' =
                       IF checked THEN block.last ELSE last
                /\ step' =
                       [kind |-> "move", game |-> g,
                        current_move_number |-> current_move_number,
                        moves_since_last |-> current_move_number - last,
                        interest |-> interest, checked |-> checked,
                        failed |-> checked /\ block.failed,
                        error |-> IF checked THEN block.error ELSE "none",
                        decision |-> IF checked THEN block.decision ELSE "none",
                        commentary |-> IF checked THEN block.commentary ELSE "none"]

\* GameOrchestrator(agent_manager): a new orchestrator.  Evaluation is on
\* when Stockfish is available, commentary when COMMENTARY_ENABLED is true
\* and the commentary objects could be built.
NewOrchestrator ==
    /\ enable_evaluation' \in BOOLEAN
    /\ enable_commentary' \in BOOLEAN
    /\ evaluation_history' = <<>>
    /\ last_commentary_move_number' = 0
    /\ evaluated' = <<>>
    /\ step' = NoStep
    /\ UNCHANGED total_moves
    /\ UNCHANGED <<selectorVars, callVars, requestVars, envVars, runVars, storeVars>>

\* the owner of the orchestrator has it play the next ply of game g and
\* passes the game's move history
RunGameStep(g) ==
    /\ total_moves[g] < PlyLimit(g)
    /\ RunStep(g, total_moves[g], enable_evaluation, enable_commentary,
               evaluation_history, last_commentary_move_number, evaluated)
    /\ UNCHANGED <<enable_evaluation, enable_commentary>>
    /\ UNCHANGED <<selectorVars, callVars, requestVars, envVars, runVars, storeVars>>

\* POST /agent-move for game g: a new orchestrator and, on it,
\* run_game_step with move_history=[]
AgentMoveStep(g) ==
    /\ total_moves[g] < PlyLimit(g)
    /\ \E eval_on \in BOOLEAN, comm_on \in BOOLEAN :
         /\ enable_evaluation' = eval_on
         /\ enable_commentary' = comm_on
         /\ RunStep(g, 0, eval_on, comm_on, <<>>, 0, <<>>)
    /\ UNCHANGED <<selectorVars, callVars, requestVars, envVars, runVars, storeVars>>

OrchestratorInit ==
    /\ enable_evaluation \in BOOLEAN
    /\ enable_commentary \in BOOLEAN
    /\ evaluation_history = <<>>
    /\ last_commentary_move_number = 0
    /\ total_moves = [g \in OrchestratorGames |-> 0]
    /\ step = NoStep
    /\ evaluated = <<>>
    /\ SelectorAtRest
    /\ CallAtRest
    /\ RequestsAtRest
    /\ EnvAtRest
    /\ RunAtRest
    /\ StoreAtRest

OrchestratorNext ==
    \/ NewOrchestrator
    \/ \E g \in OrchestratorGames : RunGameStep(g)
    \/ \E g \in OrchestratorGames : AgentMoveStep(g)

SpecOrchestrator == OrchestratorInit /\ [][OrchestratorNext]_vars

\* the last N elements of a sequence (all of it when it is shorter)
LastN(seq, n) ==
    IF Len(seq) <= n THEN seq ELSE SubSeq(seq, Len(seq) - n + 1, Len(seq))

\* C17: evaluation_history never holds more than 10 samples, and they are
\* the most recent samples the orchestrator recorded, in the order in which
\* their plies were processed (the oldest is the one dropped).
C17_WindowOfLastTen ==
    /\ Len(evaluation_history) <= 10
    /\ evaluation_history = LastN(evaluated, 10)

C17_Witness ==
    /\ Len(evaluated) = 11
    /\ Len(evaluation_history) = 10
    /\ evaluation_history[1] = evaluated[2]
    /\ evaluation_history[10].move_number = 11

\* the decision the admission table gives for the ply of the last step:
\* its interest score, its moves-since-last-commentary input, the move
\* evaluation (which has no "cp") and the swing of the last two samples
AdmissionDecision ==
    should_generate_commentary(
        step.interest, step.moves_since_last, EvaluationWithoutCp,
        just_after_tactical(evaluation_history)).decision

\* the step taken is the next ply of the game the previous step played
NextPlyOfSameGame ==
    /\ step.kind = "move" /\ step.checked
    /\ step'.kind = "move" /\ step'.checked
    /\ step'.game = step.game
    /\ total_moves'[step.game] = total_moves[step.game] + 1

\* C15: a ply whose admission decision is Skip leaves
\* last_commentary_move_number as it was, so that at the next ply of the
\* game the moves-since-last-commentary input is one larger.
C15_SkipKeepsCounterAndSilenceGrows ==
    [][(NextPlyOfSameGame /\ AdmissionDecision = "skip")
          => /\ last_commentary_move_number' = last_commentary_move_number
             /\ step'.moves_since_last = step.moves_since_last + 1]_vars

\* C16: after a ply whose admission decision is MoveComment,
\* StrategicOverview or CriticalMoment, last_commentary_move_number is that
\* ply's number.
C16_NonSkipSetsCounter ==
    (step.kind = "move" /\ step.checked /\ AdmissionDecision # "skip")
        => last_commentary_move_number = step.current_move_number

\* C18: the samples in the window when a ply of game G is processed all
\* stem from plies of G.
C18_WindowPartitionedByGame ==
    step.kind = "move" =>
        \A i \in 1..Len(evaluation_history) :
            evaluation_history[i].game = step.game

\* last_commentary_move_number when the last step began
\* (moves_since_last = current_move_number - last_commentary_move_number)
CounterBeforeStep == step.current_move_number - step.moves_since_last

\* C20: when the commentary block of a ply fails, run_game_step still
\* returns the result of the executed move, the result has no commentary
\* and last_commentary_move_number is what it was before the ply.
C20_CommentaryFailureIsSkip ==
    step.failed =>
        /\ step.kind = "move"
        /\ total_moves[step.game] >= 1
        /\ step.commentary = "none"
        /\ last_commentary_move_number = CounterBeforeStep

C20_Witness ==
    /\ step.kind = "move"
    /\ step.failed
    /\ step.error = "AttributeError"
    /\ step.commentary = "none"
    /\ step.current_move_number = 8
    /\ last_commentary_move_number = 0

\* what _detect_phase_transition gives for the list run_game_step hands the
\* scorer as recent_history (self.evaluation_history, after this ply's
\* sample was appended)
PhaseScoreInStep(board) ==
    detect_phase_transition(
        board, [len |-> Len(evaluation_history), replay |-> <<"raises", "raises">>])

\* C35: in the per-ply pipeline the phase-transition sub-score is 10 exactly
\* when the ply count of the game is in 12..18, or it exceeds 20 and the
\* position has at most 8 pieces other than pawns and kings or no queens;
\* otherwise it is 0.
C35_PhaseTransitionInPipeline ==
    (step.kind = "move" /\ step.checked) =>
        \A board \in Boards :
            PhaseScoreInStep(board) =
                IF \/ (12 <= step.current_move_number /\ step.current_move_number <= 18)
                   \/ /\ step.current_move_number > 20
                      /\ (board.pieces <= 8 \/ board.queens = 0)
                THEN 10 ELSE 0

\* ---------------------------------------------------------------------------
\* The /step and /agent-move requests of the API against the StateManager
\* (api/routes.py, state_manager.py, chess_env.py).
\*
\* StateManager.games maps a game id to the Game object; get_game returns
\* that object itself and update_game stores the object it is given, so all
\* requests of one game hold the same object.  A request builds its own
\* ChessOpenEnv whose board is parsed from game.board_state.fen when the
\* request is received.  A position is written as the sequence of the moves
\* played from the initial position.
\* ---------------------------------------------------------------------------
MaxRequests == 3      \* requests received in one behaviour

RequestGames == {"g1", "g2"}

RequestMoves == {"m1", "m2"}

RequestIds == 1..MaxRequests

NoRequest == [kind |-> "none", game |-> "none", pc |-> "idle", board |-> <<>>, move |-> "none", observation |-> <<>>]

\* StateManager.get_game: the stored object of the game
get_game(g) == games[g]

\* ChessOpenEnv.step on the environment of one request: the move is applied
\* to the request's own board and the new board state is assigned to the
\* (shared) game object; the step counts the move in the environment's own
\* _move_count and leaves game.total_moves, which only Game.add_move writes,
\* as it is
env_step(board, m) == Append(board, m)

\* StateManager.update_game(env.game): env.game is the object get_game
\* returned, which is the stored object, so the entry is re-bound to itself
update_game(g) == [games EXCEPT ![g] = games[g]]

\* POST /step: no await between get_game and update_game, the handler runs
\* to completion on the event loop
step_environment(r, g, m) ==
    /\ requests[r].pc = "idle"
    /\ LET board == get_game(g).board_state
           after == env_step(board, m)
       IN  /\ games' = [games EXCEPT ![g] = [@ EXCEPT !.board_state = after]]
           /\ requests' = [requests EXCEPT ![r] =
                  [kind |-> "step", game |-> g, pc |-> "done", board |-> after,
                   move |-> m, observation |-> after]]
    /\ UNCHANGED <<selectorVars, callVars, orchestratorVars, envVars, runVars, storeVars>>

\* POST /agent-move up to the await: get_game, the environment is recreated
\* from the stored position, the orchestrator is handed to the thread pool
agent_move_received(r, g) ==
    /\ requests[r].pc = "idle"
    /\ requests' = [requests EXCEPT ![r] =
           [kind |-> "agent", game |-> g, pc |-> "running",
            board |-> get_game(g).board_state, move |-> "none", observation |-> <<>>]]
    /\ UNCHANGED <<games, selectorVars, callVars, orchestratorVars, envVars, runVars, storeVars>>

\* run_game_step in the pool thread: the agent answers for the board of the
\* request's environment and env.step applies the move
agent_move_step(r) ==
    /\ requests[r].pc = "running"
    /\ \E m \in RequestMoves :
         LET after == env_step(requests[r].board, m)
         IN  /\ games' = [games EXCEPT ![requests[r].game] = [@ EXCEPT !.board_state = after]]
             /\ requests' = [requests EXCEPT ![r] =
                    [@ EXCEPT !.pc = "stepped", !.board = after, !.move = m,
                              !.observation = after]]
    /\ UNCHANGED <<selectorVars, callVars, orchestratorVars, envVars, runVars, storeVars>>

\* run_game_step raises (the agent gave no usable move): HTTP 500, nothing
\* is applied
agent_move_failed(r) ==
    /\ requests[r].pc = "running"
    /\ requests' = [requests EXCEPT ![r] = [@ EXCEPT !.pc = "failed"]]
    /\ UNCHANGED <<games, selectorVars, callVars, orchestratorVars, envVars, runVars, storeVars>>

\* POST /agent-move after the await: update_game and the response that
\* reports the move
agent_move_responded(r) ==
    /\ requests[r].pc = "stepped"
    /\ games' = update_game(requests[r].game)
    /\ requests' = [requests EXCEPT ![r] = [@ EXCEPT !.pc = "done"]]
    /\ UNCHANGED <<selectorVars, callVars, orchestratorVars, envVars, runVars, storeVars>>

RequestsInit ==
    /\ games = [g \in RequestGames |-> [board_state |-> <<>>, total_moves |-> 0]]
    /\ requests = [r \in RequestIds |-> NoRequest]
    /\ SelectorAtRest
    /\ CallAtRest
    /\ OrchestratorAtRest
    /\ EnvAtRest
    /\ RunAtRest
    /\ StoreAtRest

RequestsNext ==
    \/ \E r \in RequestIds, g \in RequestGames, m \in RequestMoves : step_environment(r, g, m)
    \/ \E r \in RequestIds, g \in RequestGames : agent_move_received(r, g)
    \/ \E r \in RequestIds : agent_move_step(r)
    \/ \E r \in RequestIds : agent_move_failed(r)
    \/ \E r \in RequestIds : agent_move_responded(r)

SpecRequests == RequestsInit /\ [][RequestsNext]_vars

IsPrefix(a, b) == Len(a) <= Len(b) /\ SubSeq(b, 1, Len(a)) = a

Reported(r) == requests[r].pc = "done"

\* C19: every move a request reported as executed is reflected in the stored
\* game (the position the request answered with is a prefix of the stored
\* position of its game), and no two requests of one game that reported a
\* move were computed from the same stored position (their answers have
\* different lengths): no executed move is overwritten by another request.
C19_NoMoveLost ==
    /\ \A r \in RequestIds :
          Reported(r) => IsPrefix(requests[r].observation, games[requests[r].game].board_state)
    /\ \A r1, r2 \in RequestIds :
          (r1 # r2 /\ Reported(r1) /\ Reported(r2) /\ requests[r1].game = requests[r2].game)
              => Len(requests[r1].observation) # Len(requests[r2].observation)

\* GET /state/{game_id}: the metadata of the stored game
get_state(g) == [move_count |-> get_game(g).total_moves, fen |-> get_game(g).board_state]

\* the requests of game g that answered 200 with an executed move
ExecutedOn(g) == {r \in RequestIds : Reported(r) /\ requests[r].game = g}

\* no request of game g is between its get_game and its answer
NoneInFlight(g) == \A r \in RequestIds : requests[r].game = g => requests[r].pc \in {"done", "failed"}

\* C40: once the requests of a game have all answered, the move_count the
\* state endpoint reports for the game is the number of moves the step and
\* agent-move endpoints executed on it since it was created.
C40_StateMoveCountIsExecutedMoves ==
    \A g \in RequestGames :
        NoneInFlight(g) => get_state(g).move_count = Cardinality(ExecutedOn(g))

\* ---------------------------------------------------------------------------
\* ChessOpenEnv (chess_env.py) over ChessLogic (chess_logic.py) and Game
\* (models/game.py).
\*
\* The rules of chess are python-chess's; a handful of positions stands for
\* the kinds the environment tells apart: positions in play, checkmate of
\* either side, stalemate, and a draw by insufficient material (which still
\* has legal moves).  A position is named by its FEN.
\* ---------------------------------------------------------------------------
MaxEnvCalls == 5      \* calls made on one environment

StartFen == "quiet_w"

Fens == {"quiet_w", "quiet_b", "threat_b", "mated_w", "mated_b", "stale_w", "bare_w", "bare_b"}

NoBoard == "none"

\* board.legal_moves with the position each move leads to (board.push)
Successors(fen) ==
    CASE fen = "quiet_w"  -> [m \in {"g1f3", "f2f3", "d1h5"} |->
                                 IF m = "g1f3" THEN "quiet_b"
                                 ELSE IF m = "f2f3" THEN "threat_b" ELSE "mated_b"]
      [] fen = "quiet_b"  -> [m \in {"g8f6", "d8d1", "h3h2"} |->
                                 IF m = "g8f6" THEN "quiet_w"
                                 ELSE IF m = "d8d1" THEN "bare_w" ELSE "stale_w"]
      [] fen = "threat_b" -> [m \in {"d8h4", "g8f6"} |->
                                 IF m = "d8h4" THEN "mated_w" ELSE "quiet_w"]
      [] fen = "bare_w"   -> [m \in {"e1d1"} |-> "bare_b"]
      [] fen = "bare_b"   -> [m \in {"e8d8"} |-> "bare_w"]
      [] OTHER            -> [m \in {} |-> fen]

\* the actions handed to step: the legal moves of some position and a
\* string that is no move at all
EnvActions == UNION {DOMAIN Successors(f) : f \in Fens} \cup {"zzzz"}

\* ChessLogic.get_legal_moves
get_legal_moves(fen) == DOMAIN Successors(fen)

\* ChessLogic.is_legal_move: a malformed string is not a legal move
is_legal_move(fen, move_uci) == move_uci \in get_legal_moves(fen)

\* board.turn
current_player(fen) ==
    IF fen \in {"quiet_w", "mated_w", "stale_w", "bare_w"} THEN "white" ELSE "black"

board_is_checkmate(fen) == fen \in {"mated_w", "mated_b"}

board_is_stalemate(fen) == fen = "stale_w"

board_is_insufficient_material(fen) == fen \in {"bare_w", "bare_b"}

\* ChessLogic.is_terminal: (is_terminal, reason)
chess_is_terminal(fen) ==
    IF board_is_checkmate(fen) THEN [terminal |-> TRUE, reason |-> "checkmate"]
    ELSE IF board_is_stalemate(fen) THEN [terminal |-> TRUE, reason |-> "stalemate"]
    ELSE IF board_is_insufficient_material(fen)
         THEN [terminal |-> TRUE, reason |-> "insufficient_material"]
    ELSE [terminal |-> FALSE, reason |-> "none"]

\* ChessLogic.get_result
get_result(fen) ==
    IF ~chess_is_terminal(fen).terminal THEN "*"
    ELSE IF board_is_checkmate(fen)
         THEN (IF current_player(fen) = "black" THEN "1-0" ELSE "0-1")
    ELSE "1/2-1/2"

NoGame == [status |-> "not_initialized", result |-> "*", board_state |-> NoBoard]

\* Game(game_id, board_state, ...): status ACTIVE and result ONGOING by default
NewGame(fen) == [status |-> "active", result |-> "*", board_state |-> fen]

\* Game.is_terminal
game_is_terminal(g) == g.status # "active"

\* status_map.get(terminal_reason, GameStatus.DRAW) of step
status_map(reason) == IF reason = "stalemate" THEN "stalemate" ELSE "draw"

\* Game.update_status as step calls it once the position is terminal
update_status(g, fen) ==
    IF get_result(fen) \in {"1-0", "0-1"}
    THEN [g EXCEPT !.status = "checkmate", !.result = get_result(fen)]
    ELSE [g EXCEPT !.status = status_map(chess_is_terminal(fen).reason),
                   !.result = "1/2-1/2"]

\* the checks of step with the finished-game check left out
step_check_ignores_finished(g, fen, action) ==
    IF g = NoGame THEN "not initialized"
    ELSE IF ~is_legal_move(fen, action) THEN "Illegal move"
    ELSE "ok"

\* the checks step makes before it touches anything, in their order; each
\* failing one raises ValueError with this message
step_check(g, fen, action) ==
    IF g = NoGame THEN "not initialized"
    ELSE IF game_is_terminal(g) THEN "already finished"
    ELSE IF ~is_legal_move(fen, action) THEN "Illegal move"
    ELSE "ok"

\* _move_count after reset, with the count carried over
move_count_after_reset_kept(count) == count

\* reset: self._move_count = 0
move_count_after_reset(count) == 0

\* the environment after ChessOpenEnv.step(action) and what the call gave:
\* raised is "none" or the exception, message its text
env_step_outcome(g, fen, count, action) ==
    LET check == step_check(g, fen, action) IN
    IF check # "ok"
    THEN [raised |-> "ValueError", message |-> check, game |-> g, board |-> fen,
          move_count |-> count, terminated |-> FALSE, info_move_count |-> 0]
    ELSE LET after == Successors(fen)[action]
             moved == [g EXCEPT !.board_state = after]
             terminated == chess_is_terminal(after).terminal
         IN  [raised |-> "none", message |-> "none",
              game |-> IF terminated THEN update_status(moved, after) ELSE moved,
              board |-> after, move_count |-> count + 1,
              terminated |-> terminated, info_move_count |-> count + 1]

\* the call made last on the environment: its name, its argument and the
\* number of calls made so far
LastCall == IF args = <<>> THEN "none" ELSE args[1]

LastArgument == args[2]

CallsMade == IF args = <<>> THEN 0 ELSE args[3]

EnvCall(name, argument, outcome) ==
    /\ args' = <<name, argument, CallsMade + 1>>
    /\ ret' = Returning(outcome)

EnvCallsLeft == CallsMade < MaxEnvCalls

\* ChessOpenEnv.reset(fen): fen None is the standard starting position.
\* After close() self.chess is None and reset raises AttributeError before
\* it changes anything.
EnvReset(fen) ==
    /\ EnvCallsLeft
    /\ IF chess_board = NoBoard
       THEN /\ UNCHANGED envVars
            /\ EnvCall("reset", fen, [raised |-> "AttributeError", message |-> "none",
                                      info_move_count |-> 0])
       ELSE /\ chess_board' = fen
            /\ game' = NewGame(fen)
            /\ move_count' = move_count_after_reset(move_count)
            /\ successful_steps' = 0
            /\ EnvCall("reset", fen, [raised |-> "none", message |-> "none",
                                      info_move_count |-> move_count'])
    /\ UNCHANGED <<selectorVars, orchestratorVars, requestVars, runVars, storeVars>>

\* ChessOpenEnv.step(action)
EnvStep(action) ==
    /\ EnvCallsLeft
    /\ LET out == env_step_outcome(game, chess_board, move_count, action)
       IN  /\ game' = out.game
           /\ chess_board' = out.board
           /\ move_count' = out.move_count
           /\ successful_steps' =
                  IF out.raised = "none" THEN successful_steps + 1 ELSE successful_steps
           /\ EnvCall("step", action, [raised |-> out.raised, message |-> out.message,
                                       info_move_count |-> out.info_move_count])
    /\ UNCHANGED <<selectorVars, orchestratorVars, requestVars, runVars, storeVars>>

\* ChessOpenEnv.state()
env_state(g, count) ==
    IF g = NoGame
    THEN [status |-> "not_initialized", is_terminal |-> FALSE, move_count |-> 0]
    ELSE [status |-> g.status, is_terminal |-> game_is_terminal(g), move_count |-> count]

EnvState ==
    /\ EnvCallsLeft
    /\ EnvCall("state", "none", [raised |-> "none", message |-> "none",
                                  info_move_count |-> env_state(game, move_count).move_count])
    /\ UNCHANGED envVars
    /\ UNCHANGED <<selectorVars, orchestratorVars, requestVars, runVars, storeVars>>

\* ChessOpenEnv.close(): game and chess are dropped, _move_count is kept
EnvClose ==
    /\ EnvCallsLeft
    /\ game' = NoGame
    /\ chess_board' = NoBoard
    /\ EnvCall("close", "none", [raised |-> "none", message |-> "none",
                                  info_move_count |-> 0])
    /\ UNCHANGED <<move_count, successful_steps>>
    /\ UNCHANGED <<selectorVars, orchestratorVars, requestVars, runVars, storeVars>>

\* ChessOpenEnv(): no game yet, a ChessLogic on the starting position
EnvInit ==
    /\ game = NoGame
    /\ chess_board = StartFen
    /\ move_count = 0
    /\ successful_steps = 0
    /\ CallAtRest
    /\ SelectorAtRest
    /\ OrchestratorAtRest
    /\ RequestsAtRest
    /\ RunAtRest
    /\ StoreAtRest

EnvNext ==
    \/ \E fen \in Fens : EnvReset(fen)
    \/ \E action \in EnvActions : EnvStep(action)
    \/ EnvState
    \/ EnvClose

SpecEnv == EnvInit /\ [][EnvNext]_vars

StepCalled == args' # args /\ args'[1] = "step"

StatusOfPosition(fen) ==
    IF ~chess_is_terminal(fen).terminal THEN "active"
    ELSE IF board_is_checkmate(fen) THEN "checkmate"
    ELSE status_map(chess_is_terminal(fen).reason)

\* C27: the game status agrees with the position at all times, right after
\* reset included: on a checkmate position state() reports 'checkmate' with
\* is_terminal true, and a step raises the 'already finished' error.
C27_StatusAgreesWithPosition ==
    game # NoGame =>
        /\ env_state(game, move_count).status = StatusOfPosition(chess_board)
        /\ env_state(game, move_count).is_terminal = chess_is_terminal(chess_board).terminal
        /\ (LastCall = "step" /\ ret.value.raised = "ValueError"
                /\ board_is_checkmate(chess_board))
              => ret.value.message = "already finished"

\* C28: the move count the environment reports equals the number of step
\* calls that returned since the most recent reset: reset sets it to 0, a
\* successful step adds 1, a step that raises leaves it.
C28_MoveCountIsSuccessfulSteps ==
    game # NoGame =>
        /\ move_count = successful_steps
        /\ env_state(game, move_count).move_count = successful_steps
        /\ (LastCall \in {"step", "reset"} /\ ret.value.raised = "none")
              => ret.value.info_move_count = successful_steps

\* a second game on the same environment, one ply played after the reset,
\* then a refused step
C28_Witness ==
    /\ CallsMade = 5 /\ LastCall = "step"
    /\ ret.value.raised = "ValueError"
    /\ move_count = 1 /\ successful_steps = 1
    /\ chess_board = "quiet_b"

\* ---------------------------------------------------------------------------
\* StateManager (state_manager.py).
\*
\* StateManager.games is an OrderedDict; here it is the sequence of its
\* games in the order of the dict (first: oldest).  A game carries its id,
\* whether it is finished (Game.is_terminal) and, for the properties only,
\* the number of the call that last created, got or updated it.
\* ---------------------------------------------------------------------------
MaxCapacity == 2      \* largest max_games a StateManager is built with
MaxStoreCalls == 5    \* calls made on one StateManager

StoreGameIds == {"game0", "game1", "game2"}

StoredGame(id, terminal, used) == [game_id |-> id, terminal |-> terminal, used |-> used]

\* game_id in self.games
Stored(store, id) == \E i \in 1..Len(store) : store[i].game_id = id

IndexOf(store, id) == CHOOSE i \in 1..Len(store) : store[i].game_id = id

\* del self.games[game_id]
Without(store, id) == SelectSeq(store, LAMBDA g : g.game_id # id)

\* self.games[game_id] = game followed by move_to_end(game_id)
PutLast(store, g) == Append(Without(store, g.game_id), g)

\* _cleanup_oldest: the first game of the dict is removed, if there is one
cleanup_oldest(store) == IF store = <<>> THEN store ELSE Tail(store)

\* create_game with the capacity check made before the duplicate check
store_create_game_evicts_first(store, capacity, g) ==
    LET kept == IF Len(store) >= capacity THEN cleanup_oldest(store) ELSE store IN
    IF Stored(store, g.game_id)
    THEN [raised |-> "ValueError", games |-> kept]
    ELSE [raised |-> "none", games |-> PutLast(kept, g)]

\* StateManager.create_game
store_create_game(store, capacity, g) ==
    IF Stored(store, g.game_id)
    THEN [raised |-> "ValueError", games |-> store]
    ELSE LET kept == IF Len(store) >= capacity THEN cleanup_oldest(store) ELSE store
         IN  [raised |-> "none", games |-> PutLast(kept, g)]

\* get_game without move_to_end
store_get_game_keeps_place(store, id, now) ==
    IF Stored(store, id)
    THEN [raised |-> "none", found |-> TRUE,
          games |-> [store EXCEPT ![IndexOf(store, id)].used = now]]
    ELSE [raised |-> "none", found |-> FALSE, games |-> store]

\* StateManager.get_game: a stored game moves to the end
store_get_game(store, id, now) ==
    IF Stored(store, id)
    THEN [raised |-> "none", found |-> TRUE,
          games |-> PutLast(store, [store[IndexOf(store, id)] EXCEPT !.used = now])]
    ELSE [raised |-> "none", found |-> FALSE, games |-> store]

\* StateManager.update_game
store_update_game(store, g) ==
    IF ~Stored(store, g.game_id)
    THEN [raised |-> "ValueError", games |-> store]
    ELSE [raised |-> "none", games |-> PutLast(store, g)]

\* StateManager.delete_game
store_delete_game(store, id) ==
    [raised |-> "none", found |-> Stored(store, id), games |-> Without(store, id)]

\* StateManager.cleanup_game: get_game, then delete_game if the game is
\* finished
store_cleanup_game(store, id, now) ==
    LET got == store_get_game(store, id, now) IN
    IF got.found /\ got.games[Len(got.games)].terminal
    THEN store_delete_game(got.games, id)
    ELSE [raised |-> "none", found |-> FALSE, games |-> got.games]

\* StateManager.cleanup_completed_games(): every finished game is deleted
store_cleanup_completed_games(store) ==
    [raised |-> "none", games |-> SelectSeq(store, LAMBDA g : ~g.terminal)]

\* the ids of the stored games
StoredIds(store) == {store[i].game_id : i \in 1..Len(store)}

\* one call on the StateManager: the store it leaves, whether it raised and
\* which games it removed (the calls log them)
StoreCall(name, id, outcome) ==
    /\ games' = outcome.games
    /\ args' = <<name, id, CallsMade + 1>>
    /\ ret' = Returning([raised |-> outcome.raised,
                          removed |-> StoredIds(games) \ StoredIds(outcome.games)])
    /\ UNCHANGED <<requests, max_games>>
    /\ UNCHANGED <<selectorVars, orchestratorVars, envVars, runVars>>

StoreCallsLeft == CallsMade < MaxStoreCalls

CreateGame(id) ==
    /\ StoreCallsLeft
    /\ StoreCall("create_game", id,
                 store_create_game(games, max_games, StoredGame(id, FALSE, CallsMade + 1)))

GetGame(id) ==
    /\ StoreCallsLeft
    /\ StoreCall("get_game", id, store_get_game(games, id, CallsMade + 1))

UpdateGame(id) ==
    /\ StoreCallsLeft
    /\ \E terminal \in BOOLEAN :
         StoreCall("update_game", id,
                   store_update_game(games, StoredGame(id, terminal, CallsMade + 1)))

DeleteGame(id) ==
    /\ StoreCallsLeft
    /\ StoreCall("delete_game", id, store_delete_game(games, id))

CleanupGame(id) ==
    /\ StoreCallsLeft
    /\ StoreCall("cleanup_game", id, store_cleanup_game(games, id, CallsMade + 1))

CleanupCompletedGames ==
    /\ StoreCallsLeft
    /\ StoreCall("cleanup_completed_games", "none", store_cleanup_completed_games(games))

\* StateManager(max_games): main.py takes max_games from the environment
\* variable MAX_CONCURRENT_GAMES with no check of its value
StoreInit ==
    /\ max_games \in 0..MaxCapacity
    /\ games = <<>>
    /\ requests = <<>>
    /\ CallAtRest
    /\ SelectorAtRest
    /\ OrchestratorAtRest
    /\ EnvAtRest
    /\ RunAtRest

StoreNext ==
    \/ \E id \in StoreGameIds : CreateGame(id)
    \/ \E id \in StoreGameIds : GetGame(id)
    \/ \E id \in StoreGameIds : UpdateGame(id)
    \/ \E id \in StoreGameIds : DeleteGame(id)
    \/ \E id \in StoreGameIds : CleanupGame(id)
    \/ CleanupCompletedGames

SpecStore == StoreInit /\ [][StoreNext]_vars

GameOf(store, id) == store[IndexOf(store, id)]

\* the stored game whose last use (create_game, get_game, update_game) is
\* the longest ago
LeastRecentlyUsed(store) ==
    CHOOSE id \in StoredIds(store) :
        \A other \in StoredIds(store) : GameOf(store, id).used <= GameOf(store, other).used

StoreCalled(name) == args' # args /\ args'[1] = name

\* create_game called with a new id on a store that is at capacity
CreatedAtCapacity ==
    /\ StoreCalled("create_game")
    /\ args'[2] \notin StoredIds(games)
    /\ Len(games) >= max_games

\* the eviction half of C24: create_game at capacity evicts exactly the
\* least recently used game and keeps every other one
LruEvictionAtCapacity ==
    CreatedAtCapacity =>
        /\ StoredIds(games) \ StoredIds(games') = {LeastRecentlyUsed(games)}
        /\ \A id \in StoredIds(games) \ {LeastRecentlyUsed(games)} :
              id \in StoredIds(games') /\ GameOf(games', id) = GameOf(games, id)
        /\ args'[2] \in StoredIds(games')

C25_RefusedCallsChangeNothing ==
    [][(\/ StoreCalled("create_game") /\ args'[2] \in StoredIds(games)
        \/ StoreCalled("update_game") /\ args'[2] \notin StoredIds(games))
          => /\ ret'.value.raised = "ValueError"
             /\ games' = games]_vars

\* a duplicate create_game is refused on a full store, which keeps both of
\* its games
C25_Witness ==
    /\ LastCall = "create_game"
    /\ ret.value.raised = "ValueError"
    /\ max_games = 2
    /\ Len(games) = 2
    /\ LastArgument = games[1].game_id

\* the ids of the stored games from least to most recently used
RecencyOrder(store) == [i \in 1..Len(store) |-> store[i].game_id]

\* C33: cleanup_game on a stored game that is not terminal returns False
\* (removes nothing) and leaves the store unchanged, the same games in the
\* same order of recency; on a stored terminal game it removes that game.
C33_CleanupOfActiveGameChangesNothing ==
    [][(StoreCalled("cleanup_game") /\ args'[2] \in StoredIds(games))
          => IF GameOf(games, args'[2]).terminal
             THEN /\ ret'.value.removed = {args'[2]}
                  /\ StoredIds(games') = StoredIds(games) \ {args'[2]}
             ELSE /\ ret'.value.removed = {}
                  /\ RecencyOrder(games') = RecencyOrder(games)]_vars

\* ---------------------------------------------------------------------------
\* GameOrchestrator.run_game (game_orchestrator.py) with the position cache
\* of the StockfishEvaluator its hybrid selector uses (stockfish_evaluator.py).
\*
\* The caller hands run_game an environment it has reset.  get_move is taken
\* by what it gives run_game: a legal move (C1), with or without a call of
\* get_top_moves that analysed the position, or an exception.
\* ---------------------------------------------------------------------------
MaxMoves == 3         \* largest max_moves handed to run_game
MaxRuns == 2          \* run_game calls made on one orchestrator

RunGames == {"g1", "g2"}

\* the variables of get_move that run_game does not look at
selectorOtherVars ==
    <<caller, ply, histLen, pos, pc, bookEnabled, tbEnabled, engineUp,
      agentReg, personality, bookCache, tbCache, candidates, attempt, move,
      source, error, tbResult, trace, calls>>

NoSummary == [result |-> "none", total_moves |-> 0, final_fen |-> NoBoard]

NoRun == [pc |-> "idle", game_id |-> "none", max_moves |-> 0, move_count |-> 0,
          hybrid |-> FALSE, n |-> 0, summary |-> NoSummary]

\* StockfishEvaluator(): self._position_cache = {}
NoCachedPositions == [g \in RunGames |-> {}]

\* the fens cached for a game (none when the game has no entry)
cached_positions(cache, g) == cache[g]

\* StockfishEvaluator._cache_position
cache_position(cache, g, fen) == [cache EXCEPT ![g] = @ \cup {fen}]

\* StockfishEvaluator.clear_game_cache (no caller in the repository)
clear_game_cache(cache, g) == [cache EXCEPT ![g] = {}]

\* get_top_moves(board, num_moves, game_id): a cached position is answered
\* from the cache, another one is analysed and, when the engine gave moves,
\* cached
get_top_moves_cache(cache, g, fen, gave_moves) ==
    IF fen \in cached_positions(cache, g) THEN cache
    ELSE IF gave_moves THEN cache_position(cache, g, fen)
    ELSE cache

\* run_game after the loop: the summary it returns
summary_of(g, count) ==
    [result |-> g.result, total_moves |-> count, final_fen |-> g.board_state]

\* while not env.game.is_terminal() and move_count < max_moves, and the
\* break on an empty list of legal moves
loop_goes_on(g, fen, count, limit) ==
    /\ ~game_is_terminal(g)
    /\ count < limit
    /\ get_legal_moves(fen) # {}

\* the caller builds ChessOpenEnv(game_id), resets it and awaits
\* run_game(env, white, black, max_moves)
RunGameCall(g, fen, limit, hybrid) ==
    /\ run.pc \in {"idle", "returned", "raised"}
    /\ run.n < MaxRuns
    /\ run' = [pc |-> "loop", game_id |-> g, max_moves |-> limit, move_count |-> 0,
               hybrid |-> hybrid, n |-> run.n + 1, summary |-> NoSummary]
    /\ game' = NewGame(fen)
    /\ chess_board' = fen
    /\ move_count' = move_count_after_reset(move_count)
    /\ successful_steps' = 0
    /\ UNCHANGED <<positionCache, selectorOtherVars>>
    /\ UNCHANGED <<callVars, orchestratorVars, requestVars, storeVars>>

\* one pass of the loop of run_game: get_move (or get_agent_move without a
\* hybrid selector), then env.step; a move env.step refuses is replaced by
\* a random legal one
RunGameMove ==
    /\ run.pc = "loop"
    /\ loop_goes_on(game, chess_board, run.move_count, run.max_moves)
    /\ \E m \in get_legal_moves(chess_board), analysed \in BOOLEAN, gave_moves \in BOOLEAN,
          fallback_move \in get_legal_moves(chess_board) :
         LET first == env_step_outcome(game, chess_board, move_count, m)
             out == IF first.raised = "none" THEN first
                    ELSE env_step_outcome(game, chess_board, move_count, fallback_move)
         IN  /\ analysed => run.hybrid
             /\ gave_moves => analysed
             /\ positionCache' =
                    IF analysed
                    THEN get_top_moves_cache(positionCache, run.game_id, chess_board, gave_moves)
                    ELSE positionCache
             /\ game' = out.game
             /\ chess_board' = out.board
             /\ move_count' = out.move_count
             /\ successful_steps' = successful_steps + 1
             /\ run' = [run EXCEPT !.move_count = @ + 1]
    /\ UNCHANGED selectorOtherVars
    /\ UNCHANGED <<callVars, orchestratorVars, requestVars, storeVars>>

\* get_move raises (no tier gave a move): run_game logs and re-raises
RunGameRaises ==
    /\ run.pc = "loop"
    /\ loop_goes_on(game, chess_board, run.move_count, run.max_moves)
    /\ run' = [run EXCEPT !.pc = "raised"]
    /\ UNCHANGED <<positionCache, selectorOtherVars, envVars>>
    /\ UNCHANGED <<callVars, orchestratorVars, requestVars, storeVars>>

\* the loop is over: run_game builds the summary and returns it
RunGameReturn ==
    /\ run.pc = "loop"
    /\ ~loop_goes_on(game, chess_board, run.move_count, run.max_moves)
    /\ run' = [run EXCEPT !.pc = "returned",
                          !.summary = summary_of(game, run.move_count)]
    /\ UNCHANGED <<positionCache, selectorOtherVars, envVars>>
    /\ UNCHANGED <<callVars, orchestratorVars, requestVars, storeVars>>

RunGameInit ==
    /\ run = NoRun
    /\ positionCache = NoCachedPositions
    /\ caller = "run_game" /\ ply = 0 /\ histLen = 0 /\ pos = "middlegame"
    /\ pc = "idle" /\ bookEnabled = FALSE /\ tbEnabled = FALSE
    /\ engineUp = TRUE /\ agentReg = TRUE /\ personality = "balanced"
    /\ bookCache = <<>> /\ tbCache = <<>>
    /\ candidates = <<>> /\ attempt = 0 /\ move = "none" /\ source = "none"
    /\ error = "none" /\ tbResult = <<>> /\ trace = <<>> /\ calls = 0
    /\ CallAtRest
    /\ OrchestratorAtRest
    /\ RequestsAtRest
    /\ EnvAtRest
    /\ StoreAtRest

RunGameNext ==
    \/ \E g \in RunGames, fen \in Fens, limit \in 0..MaxMoves, hybrid \in BOOLEAN :
          RunGameCall(g, fen, limit, hybrid)
    \/ RunGameMove
    \/ RunGameRaises
    \/ RunGameReturn

SpecRunGame == RunGameInit /\ [][RunGameNext]_vars

\* C21: the position-evaluation cache of a game is dropped wholesale when
\* the game ends: once run_game has returned no entry keyed by the game's id
\* remains in the evaluator's position cache.
C21_CacheDroppedWhenGameEnds ==
    run.pc = "returned" =>
        /\ cached_positions(positionCache, run.game_id) = {}
        /\ positionCache = clear_game_cache(positionCache, run.game_id)

\* the positions the evaluator holds, over all games
AllCachedPositions ==
    {e \in RunGames \X Fens : e[2] \in cached_positions(positionCache, e[1])}

\* C22: the position cache keyed by (game id, FEN) is bounded: after any
\* sequence of get_top_moves calls the number of cached positions does not
\* exceed the session-level cap (cache_size, the cap the source has for
\* cached positions), the oldest entries being trimmed at the cap.
C22_PositionCacheWithinCap ==
    Cardinality(AllCachedPositions) <= BookCacheSize

\* one pass of the loop executed a move: one more successful step, one more
\* counted move, the position a legal move of the old position leads to
ExecutedOneMove ==
    /\ run'.pc = "loop"
    /\ successful_steps' = successful_steps + 1
    /\ run'.move_count = run.move_count + 1
    /\ \E m \in get_legal_moves(chess_board) : chess_board' = Successors(chess_board)[m]

\* C36: each pass of the loop of run_game either executes exactly one move,
\* or ends the loop, or raises, the last two without touching the
\* environment; the counter of executed moves never exceeds max_moves; and
\* no move is executed once the game is terminal, neither by its status nor
\* by its position.
C36_RunGameBoundedAndStopsAtTerminal ==
    [][run.pc = "loop" =>
          /\ run'.move_count <= run'.max_moves
          /\ \/ /\ ExecutedOneMove
                /\ ~game_is_terminal(game)
                /\ ~chess_is_terminal(chess_board).terminal
             \/ /\ run'.pc \in {"returned", "raised"}
                /\ UNCHANGED envVars]_vars

\* C30: max_moves is the maximum number of moves before a draw: a game
\* that run_game stopped because max_moves moves were executed, on a
\* position that is not terminal, is reported in the summary as a draw.
C30_MaxMovesReportedAsDraw ==
    (/\ run.pc = "returned"
     /\ run.max_moves > 0
     /\ run.move_count = run.max_moves
     /\ ~chess_is_terminal(chess_board).terminal)
        => run.summary.result = "1/2-1/2"

\* ---------------------------------------------------------------------------
\* ChessAgentManager.get_agent_move as the pure-fallback tier of get_move
\* reaches it (FallbackNoAgent, FallbackAttempt), under Spec.
\* ---------------------------------------------------------------------------
\* get_agent_move has ended after its last retry
RetriesUsedUp == pc \in {"done", "raised"} /\ Count("agent_fallback") = max_retries

TimedCollaborators == {"book", "tablebase", "engine"}

\* the call on this collaborator ends whether or not it answers
BoundedByTimeout(collaborator) == collaborator \in TimedCollaborators

\* a tier whose call is bounded takes its step; a tier that waits for a
\* collaborator without a timeout takes it only if the collaborator answers
TierProgress ==
    /\ BoundedByTimeout("book") => WF_vars(BookTier)
    /\ BoundedByTimeout("tablebase") => WF_vars(TablebaseTier)
    /\ BoundedByTimeout("engine") => WF_vars(EngineTier)
    /\ WF_vars(FallbackNoAgent)
    /\ BoundedByTimeout("agent") => (WF_vars(HybridAttempt) /\ WF_vars(FallbackAttempt))

SpecProgress == Init /\ [][Next]_vars /\ TierProgress

\* C23: get_move always eventually returns or raises: every tier is bounded
\* by a timeout, so a collaborator that never responds cannot stall the ply,
\* its timeout counting as the tier being inapplicable.
C23_GetMoveEventuallyEnds ==
    (pc \in {"book", "tablebase", "engine", "hybrid", "fallback"})
        ~> (pc \in {"done", "raised"})

(***************************************************************************)
(* StockfishEvaluator.evaluate_move.                                       *)
(* evaluate_position answers None (<<>>) or a centipawn value (<<c>>).     *)
(* The call is given: whether the engine is available, the answers of the  *)
(* two evaluate_position calls (before and after the move), and whether a  *)
(* statement of the try block raises (board_copy.push of a move that is    *)
(* not pseudo-legal on the board, as /evaluate/move may hand in).          *)
(***************************************************************************)
PositionCps == {<<>>} \cup {<<c>> : c \in {0, 50, 100, 300}}

AfterCps == {<<>>} \cup {<<c>> : c \in {0 - 10000, 0 - 1, 0, 1, 9, 10}}

\* the quality chain with inclusive lower thresholds
move_quality_inclusive(centipawn_loss) ==
    IF centipawn_loss >= 300 THEN "blunder"
    ELSE IF centipawn_loss >= 100 THEN "mistake"
    ELSE IF centipawn_loss >= 50 THEN "inaccuracy"
    ELSE IF centipawn_loss < 10 THEN "excellent"
    ELSE "good"

move_quality(centipawn_loss) ==
    IF centipawn_loss > 300 THEN "blunder"
    ELSE IF centipawn_loss > 100 THEN "mistake"
    ELSE IF centipawn_loss > 50 THEN "inaccuracy"
    ELSE IF centipawn_loss < 10 THEN "excellent"
    ELSE "good"

\* expected_eval = eval_before, actual_eval = -eval_after,
\* centipawn_loss = abs(expected_eval - actual_eval), 0.0 when either
\* evaluation is None
evaluate_move(available, eval_before, eval_after, raises) ==
    IF ~available THEN [centipawn_loss |-> 0, quality |-> "unknown"]
    ELSE IF raises THEN [centipawn_loss |-> 0, quality |-> "error"]
    ELSE LET centipawn_loss ==
                 IF eval_before # <<>> /\ eval_after # <<>>
                 THEN Abs(eval_before[1] - (0 - eval_after[1]))
                 ELSE 0
         IN [centipawn_loss |-> centipawn_loss,
             quality |-> move_quality(centipawn_loss)]

EvaluateMoveInit ==
    /\ args \in {<<"evaluate_move", available, eval_before, eval_after, raises>> :
                     available \in BOOLEAN, eval_before \in PositionCps,
                     eval_after \in AfterCps, raises \in BOOLEAN}
    /\ ret = NotCalled
    /\ SelectorAtRest
    /\ OrchestratorAtRest
    /\ RequestsAtRest
    /\ EnvAtRest
    /\ RunAtRest
    /\ StoreAtRest

EvaluateMoveCall ==
    /\ ~ret.done
    /\ ret' = Returning(evaluate_move(args[2], args[3], args[4], args[5]))
    /\ UNCHANGED <<args, selectorVars, orchestratorVars, requestVars, envVars, runVars, storeVars>>

SpecEvaluateMove == EvaluateMoveInit /\ [][EvaluateMoveCall]_vars

QualityClasses == {"excellent", "good", "inaccuracy", "mistake", "blunder"}

\* C32 as stated: every evaluation's quality is one of the five classes
\* and follows the loss L by L < 10 excellent, 10 <= L < 50 good,
\* 50 <= L < 100 inaccuracy, 100 <= L < 300 mistake, L >= 300 blunder.
C32_Original ==
    ret.done =>
        LET L == ret.value.centipawn_loss
        IN /\ ret.value.quality \in QualityClasses
           /\ ret.value.quality =
                  IF L < 10 THEN "excellent"
                  ELSE IF L < 50 THEN "good"
                  ELSE IF L < 100 THEN "inaccuracy"
                  ELSE IF L < 300 THEN "mistake"
                  ELSE "blunder"

\* C32: when the engine is available and nothing raises, the quality is one
\* of the five classes and follows the loss L by L < 10 excellent,
\* 10 <= L <= 50 good, 50 < L <= 100 inaccuracy, 100 < L <= 300 mistake,
\* L > 300 blunder; with the engine unavailable the quality is "unknown"
\* and after an exception it is "error", both with loss 0.
C32_QualityFromLoss ==
    ret.done =>
        LET L == ret.value.centipawn_loss
        IN /\ (args[2] /\ ~args[5]) =>
                  /\ ret.value.quality \in QualityClasses
                  /\ ret.value.quality =
                         IF L < 10 THEN "excellent"
                         ELSE IF L <= 50 THEN "good"
                         ELSE IF L <= 100 THEN "inaccuracy"
                         ELSE IF L <= 300 THEN "mistake"
                         ELSE "blunder"
           /\ ~args[2] => (ret.value.quality = "unknown" /\ L = 0)
           /\ (args[2] /\ args[5]) => (ret.value.quality = "error" /\ L = 0)

\* an evaluation with a loss of exactly 300, classed as a mistake
C32_Witness ==
    /\ ret.done
    /\ args[2]
    /\ ~args[5]
    /\ ret.value.centipawn_loss = 300
    /\ ret.value.quality = "mistake"

(***************************************************************************)
(* The caches of OpeningBookClient and TablebaseClient over a sequence of  *)
(* queries on one orchestrator's clients.  GameOrchestrator.__init__ hands *)
(* OpeningBookClient its cache_size and builds TablebaseClient with the    *)
(* default; cache_size stands for both here (BookCacheSize).  Every        *)
(* queried position but "middlegame" has at most 7 pieces.                 *)
(***************************************************************************)
QueriedFens == Positions \cup {"rook_ending", "pawn_ending"}

QueriedTbOutcomes ==
    {TbHit("d2d4", 2, "win"), TbHit("d2d4", WdlAbsent, "draw"), TbNothing("timeout")}

NoCachedResults == [f \in QueriedFens |-> NoTbResult]

\* the positions held in TablebaseClient._session_cache
session_cache_keys(cache) == {f \in DOMAIN cache : cache[f] # NoTbResult}

\* OpeningBookClient.query_opening_book: the cache it leaves and what it
\* returns (<<>> for None); a cached body that is no JSON object raises at
\* response_data.get
query_opening_book(cache, fen, response) ==
    LET hit == BookCached(cache, fen)
        response_data == IF hit THEN BookCacheGet(cache, fen) ELSE response
        kept == IF hit \/ response.status = "timeout" THEN cache
                ELSE BookCachePut(cache, fen, response)
    IN [cache |-> kept,
        raised |-> response_data.status = "malformed",
        moves |-> IF response_data.status = "json"
                  THEN ParseBookMoves(response_data.moves) ELSE <<>>]

\* TablebaseClient.query_position: the cache it leaves and the result it
\* returns (NoTbResult for None)
query_position(cache, fen, resp) ==
    LET result ==
            IF cache[fen] # NoTbResult THEN cache[fen]
            ELSE IF ~should_query_tablebase(fen) THEN NoTbResult
            ELSE IF resp.status = "moves" THEN TbResultOf(resp)
            ELSE NoTbResult
    IN [cache |-> [cache EXCEPT ![fen] = result], result |-> result]

clientOtherVars ==
    <<caller, ply, histLen, pos, pc, bookEnabled, tbEnabled, engineUp,
      agentReg, personality, positionCache, candidates, attempt, move,
      source, error, tbResult, trace, calls>>

QueryOpeningBook(fen, response) ==
    LET out == query_opening_book(bookCache, fen, response)
    IN /\ bookCache' = out.cache
       /\ args' = <<"query_opening_book", fen>>
       /\ ret' = Returning([raised |-> out.raised, value |-> out.moves])
       /\ UNCHANGED <<tbCache, clientOtherVars>>
       /\ UNCHANGED <<orchestratorVars, requestVars, envVars, runVars, storeVars>>

QueryPosition(fen, resp) ==
    LET out == query_position(tbCache, fen, resp)
    IN /\ tbCache' = out.cache
       /\ args' = <<"query_position", fen>>
       /\ ret' = Returning([raised |-> FALSE, value |-> out.result])
       /\ UNCHANGED <<bookCache, clientOtherVars>>
       /\ UNCHANGED <<orchestratorVars, requestVars, envVars, runVars, storeVars>>

ClientsInit ==
    /\ bookCache = <<>>
    /\ tbCache = NoCachedResults
    /\ caller = "run_game" /\ ply = 0 /\ histLen = 0 /\ pos = "middlegame"
    /\ pc = "idle" /\ bookEnabled = TRUE /\ tbEnabled = TRUE
    /\ engineUp = TRUE /\ agentReg = TRUE /\ personality = "balanced"
    /\ positionCache = EmptyPositionCache
    /\ candidates = <<>> /\ attempt = 0 /\ move = NoMove /\ source = "none"
    /\ error = "none" /\ tbResult = NoTbResult /\ trace = <<>> /\ calls = 0
    /\ CallAtRest
    /\ OrchestratorAtRest
    /\ RequestsAtRest
    /\ EnvAtRest
    /\ RunAtRest
    /\ StoreAtRest

ClientsNext ==
    \/ \E fen \in QueriedFens, response \in BookApiOutcomes :
          QueryOpeningBook(fen, response)
    \/ \E fen \in QueriedFens, resp \in QueriedTbOutcomes :
          QueryPosition(fen, resp)

SpecClients == ClientsInit /\ [][ClientsNext]_vars

\* the opening-book half of C34: the book cache holds at most cache_size
\* positions, and an insertion into the full cache evicts the entry
\* inserted earliest
BookCacheHonoursSize ==
    /\ Len(bookCache') <= BookCacheSize
    /\ (Len(bookCache) = BookCacheSize /\ bookCache' # bookCache)
          => /\ Len(bookCache') = BookCacheSize
             /\ \A i \in 1..(BookCacheSize - 1) : bookCache'[i] = bookCache[i + 1]

\* C34: each client honours its cache_size: after any sequence of queries
\* neither the opening-book cache nor the tablebase cache holds more
\* positions than cache_size, and when the opening-book cache is full the
\* entry inserted earliest is the one evicted.
C34_CachesHonourCacheSize ==
    [][/\ BookCacheHonoursSize
       /\ Cardinality(session_cache_keys(tbCache')) <= BookCacheSize]_vars

====
